---- MODULE Spec2Model ----
(***************************************************************************)
(* A model of the Personal Knowledge Analyst (NestAi) pipeline:            *)
(*   - ChatService (services/synth/llama_local.py): the validate-and-retry *)
(*     loop around the chat RPC;                                           *)
(*   - the ingest services (services/ingest/{markdown,pdf,email}.py) over  *)
(*     the relational store (models/db.py) and the BM25 index              *)
(*     (services/index/bm25.py).                                           *)
(*   - RetrievalOrchestrator (services/retrieval/orchestrator.py): the     *)
(*     merge of BM25 and vector hits under the diversity cap.              *)
(*   - RetrievalStore and RetrievalService (services/retrieval/store.py,   *)
(*     service.py): the run store and the order of its writes.             *)
(*   - EmbeddingService.embed_texts (services/index/embed.py): batching.   *)
(*   - ContextBuilder (services/retrieval/context_builder.py), the         *)
(*     chunking loops and the quote stripping of the ingest services, and  *)
(*     EvaluationRunner._evaluate_example (services/evals/scorer.py).      *)
(* SpecChat covers the chat loop, SpecIngest the ingestion path,           *)
(* SpecRetrieve the orchestrator, SpecStore the run store under arbitrary  *)
(* calls, SpecQuery the store under the query pipeline, SpecEmbed the      *)
(* embedding of a list of texts, SpecBuilder the snippets of one result,   *)
(* SpecChunker (SpecChunkerFair) the chunking loops, SpecQuote the quote   *)
(* stripping, SpecEval the scoring of one example, SpecServe a question    *)
(* served and replayed over an ingested corpus.                            *)
(***************************************************************************)
EXTENDS Integers, Sequences, FiniteSets, TLC

VARIABLES
    \* ---- ChatService ----
    schema,             \* self._schema: the answer JSON schema loaded at construction
    max_retries,        \* self.max_retries
    gpc,                \* position of generate(): "idle", "running", "returned", "raised"
    rpc,                \* chat RPCs issued by the current generate() call
    messages,           \* len(messages) of the current call
    last_error,         \* last_error of _invoke_with_retries
    raised,             \* the exception generate() raised
    answer,             \* the value generate() returned
    last_raw_response,  \* self._last_raw_response
    lastResp,           \* the response the chat RPC gave last
    log,                \* what each response of the current call was
    \* ---- ingestion ----
    service,            \* which ingest service this deployment runs: "md", "pdf", "email"
    mbox,               \* the discovered paths whose suffix is .mbox (email only)
    files,              \* the source directory: path -> file content
    documents,          \* table documents: path -> row or NoDoc
    chunks,             \* table chunks: a set of rows
    lexical,            \* the BM25 index: a set of records keyed by chunk_id
    nextDocId,          \* the sequence behind documents.id
    nextChunkId,        \* the sequence behind chunks.id
    run,                \* the ingest() call in progress
    step,               \* what the latest _ingest_file call did
    edits,              \* file edits made so far
    rebuilds,           \* clear / bulk_replace calls made on the index so far
    \* ---- RetrievalOrchestrator ----
    final_limit,        \* self.final_limit
    diversity_cap,      \* self.diversity_cap
    question,           \* the question passed to retrieve(): "blank" or "text"
    embedQueryOK,       \* whether embed_query returns
    bm25_hits,          \* what bm25_service.search returned
    vector_hits,        \* what vector_service.search returned
    selected,           \* the list retrieve() returned
    rpos,               \* position of retrieve(): "idle", "searching", "returned", "raised"
    \* ---- run store ----
    qa_runs,            \* table qa_runs as the session sees it (its own transaction
                        \* included): run id -> row
    qa_contexts,        \* table qa_contexts as the session sees it: a set of rows
    qa_answers,         \* table qa_answers as the session sees it: run id -> answer_json
    nextCtxId,          \* the sequence behind qa_contexts.id
    pending,            \* the QAContext objects added to the session and not flushed yet
    durable,            \* the committed qa_* tables (what another session reads)
    query,              \* the query in progress through RetrievalService
    oplog,              \* per query, the operations made for its run, in order
    deletions,          \* chunk deletions made so far
    lastRead,           \* what the latest replay or list_runs returned, none after a write
                        \* or the end of a request
    \* ---- EmbeddingService ----
    batch_size,         \* self.batch_size
    inputs,             \* the texts passed to embed_texts
    offset,             \* the offset of the batch in flight
    attempts,           \* attempts _embed_batch made for that batch
    vectors,            \* the vectors collected so far; the result on return
    epos,               \* position of embed_texts(): "idle", "running", "returned", "raised"
    eraised,            \* the exception embed_texts raised
    requests,           \* the requests sent to /api/embed by the current call, in order
    \* ---- ContextBuilder ----
    given,              \* the RetrievalResult list passed to build()
    snippets,           \* the ContextSnippet list build() returned
    \* ---- chunkers ----
    chunker,            \* which chunker runs: "md", "pdf", "email"
    max_tokens,         \* self.max_tokens
    overlap_tokens,     \* overlap_tokens of the chunker
    units,              \* the token count of each line (md) or paragraph (pdf, email)
    cursor,             \* cursor of the chunking loop
    drafts,             \* the chunks produced so far
    iterations,         \* iterations of the chunking loop executed so far
    kpos,               \* position of the chunking loop: "idle", "running", "done"
    \* ---- email quote stripping ----
    body,               \* the lines of the body passed to _strip_quotes
    cleaned,            \* the lines _strip_quotes kept
    qpos,               \* "idle" before _strip_quotes is called, "done" after
    \* ---- EvaluationRunner ----
    payload,            \* the response payload passed to _evaluate_example
    expectations,       \* the ExampleExpectations of the dataset item
    evaluation          \* what _evaluate_example returned

chatVars == <<schema, max_retries, gpc, rpc, messages, last_error, raised, answer,
              last_raw_response, lastResp, log>>
ingestVars == <<service, mbox, files, documents, chunks, lexical, nextDocId,
                nextChunkId, run, step, edits, rebuilds>>
retrievalVars == <<final_limit, diversity_cap, question, embedQueryOK, bm25_hits,
                   vector_hits, selected, rpos>>
storeVars == <<qa_runs, qa_contexts, qa_answers, nextCtxId, pending, durable, query, oplog,
               deletions, lastRead>>
embedVars == <<batch_size, inputs, offset, attempts, vectors, epos, eraised, requests>>
builderVars == <<given, snippets>>
chunkerVars == <<chunker, max_tokens, overlap_tokens, units, cursor, drafts, iterations, kpos>>
quoteVars == <<body, cleaned, qpos>>
evalVars == <<payload, expectations, evaluation>>
otherVars == <<retrievalVars, storeVars, embedVars, builderVars, chunkerVars, quoteVars,
               evalVars>>
vars == <<chatVars, ingestVars, otherVars>>

\* ---------------------------------------------------------------- bounds
MaxRetries == 2
NumFiles == 2
MaxChunks == 2
MaxEdits == 2
MaxRuns == 3
MaxChunkId == 5
MaxHits == 3
MaxLimit == 4
MaxCap == 2
MaxQARuns == 2
MaxResults == 2
MaxCtxRows == 2
MaxDeletions == 1
MaxTexts == 4
MaxBatch == 3
MaxUnits == 3
MaxUnitTokens == 4
MaxTokens == 3
MaxLines == 4
MaxServeHits == 2
MaxRebuilds == 1
MaxStoreRuns == 1
MaxSources == 3
MaxMinSources == 3

\* ---------------------------------------------------------------- settings
VectorDim == 768

\* ---------------------------------------------------------------- idle subsystems
\* The orchestrator as constructed with its defaults, no retrieve() call made.
RetrievalIdle ==
    /\ final_limit = 12 /\ diversity_cap = 3 /\ question = "blank" /\ embedQueryOK = TRUE
    /\ bm25_hits = <<>> /\ vector_hits = <<>> /\ selected = <<>> /\ rpos = "idle"

\* The qa_* tables of a fresh database, no query in progress.
EmptyStore == [runs |-> <<>>, contexts |-> {}, answers |-> <<>>, seq |-> 1]
NoQuery == [phase |-> "idle", method |-> "none", at |-> 0, run_id |-> 0, contexts |-> <<>>,
            answer |-> [abstain |-> FALSE], failure |-> "none"]
NoRead == [op |-> "none", run_id |-> 0, result |-> <<>>]
StoreIdle ==
    /\ qa_runs = <<>> /\ qa_contexts = {} /\ qa_answers = <<>> /\ nextCtxId = 1
    /\ pending = <<>>
    /\ durable = EmptyStore /\ query = NoQuery /\ oplog = <<>> /\ deletions = 0
    /\ lastRead = NoRead

\* The embedding service as constructed with its defaults, no call made.
EmbedIdle ==
    /\ batch_size = 16 /\ inputs = <<>> /\ offset = 0 /\ attempts = 0
    /\ vectors = <<>> /\ epos = "idle" /\ eraised = "" /\ requests = <<>>

\* No build() call made.
BuilderIdle == given = <<>> /\ snippets = <<>>

\* The markdown chunker as constructed with its defaults, nothing chunked.
ChunkerIdle ==
    /\ chunker = "md" /\ max_tokens = 800 /\ overlap_tokens = 96 /\ units = <<>>
    /\ cursor = 0 /\ drafts = <<>> /\ iterations = 0 /\ kpos = "idle"

QuoteIdle == body = <<>> /\ cleaned = <<>> /\ qpos = "idle"

\* ExampleExpectations(): the defaults of the dataclass (None is -1, as NoneValue).
NoExpectations ==
    [min_sources |-> 1, require_abstain |-> "None", required_source_ids |-> {},
     max_latency_ms |-> -1]
NoPayload == [abstain |-> FALSE, sources |-> <<>>, latency_ms |-> 0]
NoEvaluation ==
    [status |-> "none", latency_ms |-> 0, source_count |-> 0, issues |-> <<>>,
     abstain |-> FALSE]
EvalIdle ==
    payload = NoPayload /\ expectations = NoExpectations /\ evaluation = NoEvaluation

OthersIdle ==
    /\ RetrievalIdle /\ StoreIdle /\ EmbedIdle
    /\ BuilderIdle /\ ChunkerIdle /\ QuoteIdle /\ EvalIdle

\* ---------------------------------------------------------------- JSON values
\* A JSON value is a record [t, k, has]: t its JSON type, k its shape (the item
\* shape of an array, the literal of a boolean), has the property names that
\* Python's `in` finds in it (substrings of a string, elements of an array).
Keys == {"abstain", "answer", "bullets", "conflicts", "sources"}

Absent == [t |-> "absent", k |-> "", has |-> {}]
JNull == [t |-> "null", k |-> "", has |-> {}]
JBool(b) == [t |-> "boolean", k |-> IF b THEN "true" ELSE "false", has |-> {}]
JNum == [t |-> "number", k |-> "", has |-> {}]
JStr(subs) == [t |-> "string", k |-> "", has |-> subs]
JArr(kind, elems) == [t |-> "array", k |-> kind, has |-> elems]

NoMembers == [key \in Keys |-> Absent]

\* A parsed document: v the value when it is not an object, m the members of an object.
NonObject(val) == [t |-> val.t, k |-> val.k, has |-> val.has, m |-> NoMembers]
Object(members) == [t |-> "object", k |-> "", has |-> {}, m |-> members]

ObjectMembers ==
    { mm \in [Keys -> {Absent, JBool(FALSE), JStr({}), JArr("empty", {}),
                       JArr("srcs", {}), JNum}] :
        /\ mm["abstain"] \in {Absent, JBool(FALSE), JStr({})}
        /\ mm["answer"] \in {Absent, JStr({})}
        /\ mm["bullets"] \in {Absent, JArr("empty", {}), JArr("srcs", {})}
        /\ mm["conflicts"] \in {Absent, JArr("empty", {})}
        /\ mm["sources"] \in {Absent, JArr("srcs", {}), JNum} }

ParsedValues ==
    { NonObject(val) : val \in {JNull, JBool(TRUE), JNum, JStr({}), JStr(Keys),
                                JArr("empty", {}), JArr("strs", Keys)} }
    \cup { Object(mm) : mm \in ObjectMembers }

\* The content string of a response: text that json.loads rejects, or the
\* serialisation of a JSON value.
NotJson(text) == [json |-> FALSE, text |-> text, val |-> NonObject(JNull)]
JsonText(val) == [json |-> TRUE, text |-> "", val |-> val]
NoContent == [json |-> FALSE, text |-> "", val |-> NonObject(JNull)]

Contents ==
    { NotJson(text) : text \in {"{not valid json", "{still invalid"} }
    \cup { JsonText(val) : val \in ParsedValues }

\* What POST /api/chat gives: a transport failure, a body without
\* message.content, a body whose message is no mapping, or a content string.
Responses ==
    { [status |-> s, content |-> NoContent] :
        s \in {"timeout", "http_error", "no_content", "message_not_object"} }
    \cup { [status |-> "ok", content |-> c] : c \in Contents }

NoResponse == [status |-> "none", content |-> NoContent]
NoRaw == [json |-> FALSE, text |-> "None", val |-> NonObject(JNull)]

\* ---------------------------------------------------------------- schemas
Prop(type, items, hasDefault) == [type |-> type, items |-> items, default |-> hasDefault]

\* The answer schema of the deployment (services/synth/response_schema.json).
SpecSchema ==
    [name |-> "response_schema",
     props |-> [key \in Keys |->
        CASE key = "abstain" -> Prop("boolean", "any", FALSE)
          [] key = "answer" -> Prop("string", "any", FALSE)
          [] key = "bullets" -> Prop("array", "strs", TRUE)
          [] key = "conflicts" -> Prop("array", "confl", TRUE)
          [] key = "sources" -> Prop("array", "srcs", TRUE)],
     required |-> Keys]

\* The schema the tests write: types only, no defaults.
TestSchema ==
    [name |-> "test_schema",
     props |-> [key \in Keys |->
        CASE key = "abstain" -> Prop("boolean", "any", FALSE)
          [] key = "answer" -> Prop("string", "any", FALSE)
          [] OTHER -> Prop("array", "any", FALSE)],
     required |-> Keys]

Schemas == {SpecSchema, TestSchema}

\* json.loads(content)
JsonLoads(content) ==
    IF content.json THEN [ok |-> TRUE, val |-> content.val]
    ELSE [ok |-> FALSE, val |-> NonObject(JNull)]

\* Python's `key in data`; only containers have it.
SupportsIn(data) == data.t \in {"object", "string", "array"}
In(key, data) ==
    IF data.t = "object" THEN data.m[key] # Absent ELSE key \in data.has

\* _apply_schema_defaults left out of _invoke: the parsed value goes to the validator as
\* it came.
ApplySchemaDefaultsSkipped(sch, data) ==
    IF ~SupportsIn(data) THEN [err |-> "TypeError", data |-> data]
    ELSE [err |-> "", data |-> data]

\* ChatService._apply_schema_defaults: err is the exception it raises.
ApplySchemaDefaults(sch, data) ==
    LET toFill == { key \in Keys : sch.props[key].default /\ ~In(key, data) }
    IN  IF ~SupportsIn(data) THEN [err |-> "TypeError", data |-> data]
        ELSE IF toFill = {} THEN [err |-> "", data |-> data]
        ELSE IF data.t # "object" THEN [err |-> "TypeError", data |-> data]
        ELSE [err |-> "",
              data |-> Object([key \in Keys |->
                          IF key \in toFill THEN JArr("empty", {}) ELSE data.m[key]])]

\* Draft7Validator(schema).validate(data)
PropertyOK(prop, val) ==
    /\ val.t = prop.type
    /\ (prop.type = "array" /\ prop.items # "any") => val.k \in {"empty", prop.items}

SchemaValid(sch, data) ==
    /\ data.t = "object"
    /\ \A key \in sch.required : data.m[key] # Absent
    /\ \A key \in Keys : data.m[key] # Absent => PropertyOK(sch.props[key], data.m[key])

\* ChatAnswer.model_validate(response_json)
ItemsOf(key) ==
    CASE key = "bullets" -> "strs" [] key = "conflicts" -> "confl"
      [] key = "sources" -> "srcs" [] OTHER -> "any"

ModelValidate(data) ==
    /\ data.t = "object"
    /\ data.m["abstain"].t = "boolean"
    /\ data.m["answer"].t = "string"
    /\ \A key \in {"bullets", "conflicts", "sources"} :
          data.m[key] # Absent =>
              data.m[key].t = "array" /\ data.m[key].k \in {"empty", ItemsOf(key)}

NoError == [type |-> "None", cause |-> "", attempt |-> 0]
Error(type, cause, attempt) == [type |-> type, cause |-> cause, attempt |-> attempt]
NoAnswer == NonObject(JNull)

\* ---------------------------------------------------------------- ChatService
\* A plausible slip in _invoke: the validator is never run, so whatever parses
\* and takes the defaults is returned.
ContentOutcomeUnvalidated(sch, content, prevRaw) ==
    LET parsed == JsonLoads(content)
        filled == ApplySchemaDefaults(sch, parsed.val)
    IN  IF ~parsed.ok THEN
            [exc |-> "ChatServiceValidationError", cause |-> "not_json",
             data |-> NoAnswer, raw |-> content]
        ELSE IF filled.err # "" THEN
            [exc |-> filled.err, cause |-> "apply_schema_defaults",
             data |-> NoAnswer, raw |-> content]
        ELSE [exc |-> "", cause |-> "", data |-> filled.data, raw |-> content]

\* A plausible slip in _invoke: the raw text is kept only when it fails to parse.
ContentOutcomeRawOnFailure(sch, content, prevRaw) ==
    LET parsed == JsonLoads(content)
        filled == ApplySchemaDefaults(sch, parsed.val)
    IN  IF ~parsed.ok THEN
            [exc |-> "ChatServiceValidationError", cause |-> "not_json",
             data |-> NoAnswer, raw |-> content]
        ELSE IF filled.err # "" THEN
            [exc |-> filled.err, cause |-> "apply_schema_defaults",
             data |-> NoAnswer, raw |-> prevRaw]
        ELSE IF ~SchemaValid(sch, filled.data) THEN
            [exc |-> "ChatServiceValidationError", cause |-> "schema",
             data |-> NoAnswer, raw |-> prevRaw]
        ELSE [exc |-> "", cause |-> "", data |-> filled.data, raw |-> prevRaw]

\* ChatService._invoke once message.content is in hand: exc the exception it
\* raises ("" when it returns), data the dict it returns, raw the value of
\* _last_raw_response after it.
ContentOutcome(sch, content, prevRaw) ==
    LET parsed == JsonLoads(content)
        filled == ApplySchemaDefaults(sch, parsed.val)
    IN  IF ~parsed.ok THEN
            [exc |-> "ChatServiceValidationError", cause |-> "not_json",
             data |-> NoAnswer, raw |-> content]
        ELSE IF filled.err # "" THEN
            [exc |-> filled.err, cause |-> "apply_schema_defaults",
             data |-> NoAnswer, raw |-> content]
        ELSE IF ~SchemaValid(sch, filled.data) THEN
            [exc |-> "ChatServiceValidationError", cause |-> "schema",
             data |-> NoAnswer, raw |-> content]
        ELSE [exc |-> "", cause |-> "", data |-> filled.data, raw |-> content]

\* ChatService._invoke on one response of the chat RPC.
Invoke(sch, resp, prevRaw) ==
    IF resp.status = "timeout" THEN
        [exc |-> "ChatServiceError", cause |-> "timeout", data |-> NoAnswer, raw |-> prevRaw]
    ELSE IF resp.status = "http_error" THEN
        [exc |-> "ChatServiceError", cause |-> "http_error", data |-> NoAnswer, raw |-> prevRaw]
    ELSE IF resp.status = "no_content" THEN
        \* data["message"]["content"] raises KeyError
        [exc |-> "ChatServiceError", cause |-> "no_content", data |-> NoAnswer, raw |-> prevRaw]
    ELSE IF resp.status = "message_not_object" THEN
        \* data["message"] is null, a string or a list: the subscript raises
        \* TypeError, which `except KeyError` does not catch
        [exc |-> "TypeError", cause |-> "message_not_object", data |-> NoAnswer, raw |-> prevRaw]
    ELSE ContentOutcome(sch, resp.content, prevRaw)

\* One iteration of the loop of _invoke_with_retries, attempt number n (from 1):
\* "return", "retry" (next iteration), "raise_last" (the loop ended: raise
\* last_error) or "propagate" (an exception no except clause catches).
AfterAttempt(exc, n, maxr) ==
    IF exc = "" THEN "return"
    ELSE IF exc = "ChatServiceValidationError" THEN
        IF n < maxr + 1 THEN "retry" ELSE "raise_last"
    ELSE IF exc = "ChatServiceError" THEN "raise_last"
    ELSE "propagate"

\* What a response is, whatever the code makes of it.
Classify(sch, resp) ==
    IF resp.status # "ok" THEN resp.status
    ELSE IF ~resp.content.json THEN "not_json"
    ELSE IF resp.content.val.t # "object" THEN "invalid"
    ELSE IF SchemaValid(sch, ApplySchemaDefaults(sch, resp.content.val).data) THEN "valid"
    ELSE "invalid"

ChatIdleIngest ==
    /\ service = "md" /\ mbox = {} /\ files = <<>> /\ documents = <<>>
    /\ chunks = {} /\ lexical = {} /\ nextDocId = 1 /\ nextChunkId = 1
    /\ run = <<>> /\ step = <<>> /\ edits = 0 /\ rebuilds = 0

InitChat ==
    /\ schema \in Schemas
    /\ max_retries \in -1 .. MaxRetries
    /\ gpc = "idle"
    /\ rpc = 0
    /\ messages = 0
    /\ last_error = NoError
    /\ raised = NoError
    /\ answer = NoAnswer
    /\ last_raw_response = NoRaw
    /\ lastResp = NoResponse
    /\ log = <<>>
    /\ ChatIdleIngest
    /\ OthersIdle

\* generate() up to the first RPC: messages = [system, user]; a loop of no
\* iteration (max_retries < 0) raises at once.
Generate ==
    /\ gpc \in {"idle", "returned", "raised"}
    /\ rpc' = 0
    /\ messages' = 2
    /\ last_error' = NoError
    /\ answer' = NoAnswer
    /\ log' = <<>>
    /\ lastResp' = NoResponse
    /\ IF max_retries + 1 <= 0
       THEN gpc' = "raised" /\ raised' = Error("ChatServiceError", "unknown", 0)
       ELSE gpc' = "running" /\ raised' = NoError
    /\ UNCHANGED <<schema, max_retries, last_raw_response>>
    /\ UNCHANGED <<ingestVars, otherVars>>

\* One chat RPC and everything generate() does with its response, up to the
\* next RPC or the end of the call.
InvokeAttempt ==
    /\ gpc = "running"
    /\ \E resp \in Responses :
        LET out == Invoke(schema, resp, last_raw_response)
            n == rpc + 1
            next == AfterAttempt(out.exc, n, max_retries)
            err == Error(out.exc, out.cause, n)
        IN  /\ rpc' = n
            /\ lastResp' = resp
            /\ log' = Append(log, Classify(schema, resp))
            /\ last_raw_response' = out.raw
            /\ messages' = IF out.exc = "ChatServiceValidationError"
                           THEN messages + 1 ELSE messages
            /\ last_error' = IF out.exc \in {"ChatServiceValidationError", "ChatServiceError"}
                             THEN err ELSE last_error
            /\ CASE next = "return" ->
                      IF ModelValidate(out.data)
                      THEN gpc' = "returned" /\ answer' = out.data /\ raised' = NoError
                      ELSE gpc' = "raised" /\ answer' = NoAnswer
                           /\ raised' = Error("pydantic.ValidationError", "model_validate", n)
                 [] next = "retry" ->
                      gpc' = "running" /\ UNCHANGED <<answer, raised>>
                 [] next = "raise_last" ->
                      gpc' = "raised" /\ raised' = err /\ UNCHANGED answer
                 [] OTHER ->
                      gpc' = "raised" /\ raised' = err /\ UNCHANGED answer
    /\ UNCHANGED <<schema, max_retries>>
    /\ UNCHANGED <<ingestVars, otherVars>>

NextChat == Generate \/ InvokeAttempt

SpecChat == InitChat /\ [][NextChat]_vars

\* ---------------------------------------------------------------- claims C1..C4
FailsValidation == {"not_json", "invalid"}
ProtocolErrors == {"timeout", "http_error", "no_content", "message_not_object"}

\* The members of the dict generate() returned are those of the content the
\* last response carried, completed only by schema defaults.
AnswerIsContentOf(content) ==
    /\ content.json
    /\ content.val.t = "object"
    /\ \A key \in Keys :
          IF content.val.m[key] # Absent
          THEN answer.m[key] = content.val.m[key]
          ELSE answer.m[key] # Absent =>
                  schema.props[key].default /\ answer.m[key] = JArr("empty", {})

\* C1: whenever generate() has returned, the value it returned is the parsed
\* content of the response just received and that value satisfies the answer
\* schema; a call that ended without returning has raised.
C1_ReturnedAnswerPassedSchema ==
    /\ gpc = "returned" =>
          /\ lastResp.status = "ok"
          /\ AnswerIsContentOf(lastResp.content)
          /\ SchemaValid(schema, answer)
          /\ raised = NoError
    /\ gpc = "raised" => raised # NoError /\ answer = NoAnswer

C1_Witness ==
    /\ gpc = "returned"
    /\ log = <<"not_json", "invalid", "valid">>
    /\ lastResp.content.val.m["bullets"] = Absent

\* C2: when every response of a call fails validation (not JSON, or JSON that
\* the schema rejects), generate() issues exactly max_retries + 1 RPCs and then
\* raises ChatServiceValidationError for the last attempt; no call issues more
\* than max_retries + 1 RPCs.
C2_AllInvalidExhaustsRetries ==
    max_retries >= 0 =>
        /\ rpc <= max_retries + 1
        /\ (gpc \in {"raised", "returned"}
            /\ \A i \in 1 .. Len(log) : log[i] \in FailsValidation)
           => /\ gpc = "raised"
              /\ rpc = max_retries + 1
              /\ raised.type = "ChatServiceValidationError"
              /\ raised.attempt = rpc

\* C3: a transport or protocol error of the chat RPC ends the call on the
\* attempt it occurs on: no later RPC, and generate() raises the
\* ChatServiceError of that attempt.
C3_ProtocolErrorFailsFast ==
    \A i \in 1 .. Len(log) :
        log[i] \in ProtocolErrors =>
            /\ i = Len(log)
            /\ gpc = "raised"
            /\ raised.type = "ChatServiceError"
            /\ raised.attempt = i

\* C4: after a generate() call that returned, last_raw_response is the raw
\* content of the response that was validated and returned; after a first
\* response that is not JSON and a second well-formed one, exactly two RPCs
\* were made and the answer is that of the second response.
C4_LastRawIsReturnedPayload ==
    gpc = "returned" =>
        /\ last_raw_response = lastResp.content
        /\ rpc = Len(log)
        /\ log[Len(log)] = "valid"
        /\ log[1] = "not_json" /\ log[2] = "valid" =>
              /\ rpc = 2
              /\ AnswerIsContentOf(last_raw_response)

C4_Witness ==
    /\ gpc = "returned"
    /\ log = <<"not_json", "valid">>
    /\ rpc = 2
    /\ last_raw_response = lastResp.content

\* ---------------------------------------------------------------- source files
\* Paths in the order sorted(glob(...)) gives them.
Paths == 1 .. NumFiles

\* The bytes a file may hold, numbered; one of them gives no chunk.
FileContents == 1 .. MaxChunks + 1

\* The number of chunks the chunker makes of the bytes (0: no text, no chunk).
ChunkCount(c) == c % (MaxChunks + 1)

\* hashlib.sha256(raw).hexdigest(): distinct bytes have distinct digests.
Sha256(c) == (c * 7919) % 65521
\* len(raw)
SizeOf(c) == c + ChunkCount(c)

\* The bytes carry a title of their own: a front-matter title or a heading
\* (md), a Subject header (email).  The odd-numbered bytes do.
HasTitle(c) == c % 2 = 1

\* path.stem.replace("_", " ").title(); the files of the model have distinct stems.
StemTitle(path) == [from |-> "stem", v |-> path]

NoDoc == [id |-> 0, sha256 |-> 0, size |-> 0, title |-> [from |-> "", v |-> 0]]

\* The title an ingest gives the document, `existing` being the row stored for
\* the path (NoDoc: none). pdf: the stem, always. md: _resolve_title, the title
\* of the bytes or else the stem. email: on insert `subject or stem`, on update
\* `subject or document.title`, the title the row already has.
TitleOf(svc, path, c, existing) ==
    IF svc = "pdf" THEN StemTitle(path)
    ELSE IF HasTitle(c) THEN [from |-> "content", v |-> c]
    ELSE IF svc = "md" \/ existing = NoDoc THEN StemTitle(path)
    ELSE existing.title

\* ---------------------------------------------------------------- relational store
\* An ingest reads the file at most twice.  md: frontmatter.load(path) for the
\* content and the title, then path.read_bytes() for the digest and the size.
\* pdf: pdf_path.read_bytes() for the digest and the size, then
\* extract_pages(pdf_path) for the pages.  email: path.read_bytes() once, parsed
\* and hashed.  TextRead: the bytes that are parsed; RawRead: those that are hashed.
TextRead(svc, first, second) == IF svc = "pdf" THEN second ELSE first
RawRead(svc, first, second) == IF svc = "md" THEN second ELSE first

DocRow(id, svc, path, text, raw, existing) ==
    [id |-> id, sha256 |-> Sha256(raw), size |-> SizeOf(raw),
     title |-> TitleOf(svc, path, text, existing)]

ChunksOf(chs, docId) == { ch \in chs : ch.document_id = docId }
RelIds(chs, docId) == { ch.id : ch \in ChunksOf(chs, docId) }
LexIds(lex, docId) == { e.chunk_id : e \in { x \in lex : x.document_id = docId } }

\* A plausible slip: enumerate(...) without start=1.
NewChunkRowsFromZero(docId, firstId, n, dims, digest) ==
    { [id |-> firstId + i - 1, document_id |-> docId, ordinal |-> i - 1,
       dim |-> dims[i], of |-> digest] : i \in 1 .. (IF Len(dims) < n THEN Len(dims) ELSE n) }

\* The Chunk rows of `for ordinal, (chunk, embedding) in enumerate(zip(chunks,
\* embeddings), start=1)`: ids from the sequence, dim the embedding's length,
\* of the digest of the bytes they were cut from.
NewChunkRows(docId, firstId, n, dims, digest) ==
    { [id |-> firstId + i - 1, document_id |-> docId, ordinal |-> i,
       dim |-> dims[i], of |-> digest] : i \in 1 .. (IF Len(dims) < n THEN Len(dims) ELSE n) }

\* What the database itself refuses at flush: uq_chunks_document_ordinal and
\* the width of Vector(settings.vector_dim).
ConstraintsOK(chs) ==
    /\ \A a \in chs : a.dim = VectorDim
    /\ \A a \in chs : \A b \in chs :
          (a.document_id = b.document_id /\ a.ordinal = b.ordinal) => a.id = b.id

\* A plausible slip: the scope commits what was flushed although a step raised.
SessionScopeNoRollback(before, working, failed) == working

\* session_scope: commit the work, or roll back to the state before it.
SessionScope(before, working, failed) == IF failed THEN before ELSE working

\* A plausible slip: the hash comparison is dropped, every file is rewritten.
UnchangedNever(existing, digest) == FALSE

\* `existing and existing.sha256 == sha256`
Unchanged(existing, digest) == existing # NoDoc /\ existing.sha256 = digest

\* ---------------------------------------------------------------- embedding
\* What the daemon answers for a batch of n texts: no usable answer, or a list
\* of vectors, given by their lengths.
DaemonAnswers(n) ==
    { <<>>,
      [i \in 1 .. n |-> VectorDim],
      [i \in 1 .. n + 1 |-> VectorDim],
      [i \in 1 .. n |-> IF i = n THEN VectorDim - 1 ELSE VectorDim] }

\* EmbeddingService._embed_batch with expected_dim = settings.vector_dim, after
\* its attempts: the vectors, or EmbeddingServiceError.
EmbedBatch(n, daemon) ==
    IF daemon = <<>> THEN [err |-> "EmbeddingServiceError", vectors |-> <<>>]
    ELSE IF \E i \in 1 .. Len(daemon) : daemon[i] # VectorDim
        THEN [err |-> "EmbeddingServiceError", vectors |-> <<>>]
    ELSE IF Len(daemon) # n THEN [err |-> "EmbeddingServiceError", vectors |-> <<>>]
    ELSE [err |-> "", vectors |-> daemon]

\* ---------------------------------------------------------------- BM25 index
\* A plausible slip: the ids of the replaced chunks are never deleted.
RemoveChunksNoop(lex, ids) == lex

\* BM25IndexService.remove_chunks: delete_documents_by_term for each id, commit.
RemoveChunks(lex, ids) == { e \in lex : e.chunk_id \notin ids }

\* BM25IndexService.add_documents: per record delete by chunk_id, then add; commit.
AddDocuments(lex, payloads) ==
    { e \in lex : e.chunk_id \notin { x.chunk_id : x \in payloads } } \cup payloads

\* BM25IndexService.bulk_replace: delete_all_documents, add every document
\* given, commit.
BulkReplace(lex, docs) == docs

\* BM25IndexService.clear: delete_all_documents, commit.
Clear(lex) == {}

\* The record add_documents and bulk_replace take for a chunk row.
PayloadOf(ch) == [chunk_id |-> ch.id, document_id |-> ch.document_id]

\* How a write method of the index ends: it returns, it raises before its
\* commit, or it raises after it (index.reload()).
LexicalEnds == {"ok", "raise_before_commit", "raise_after_commit"}

\* ---------------------------------------------------------------- _ingest_file
Min(a, b) == IF a < b THEN a ELSE b
Max(a, b) == IF a >= b THEN a ELSE b

Failures == {"chunker_error", "embed_error", "count_mismatch",
             "tx_failed", "lexical_error"}

\* _ingest_file / _ingest_eml from its start to the end of the session scope.
\* Row ids are names: the ids a rolled-back transaction drew were seen by no
\* one, so the sequences are modelled as advancing on commit only.
\* Inputs: text, the bytes the chunks (and the title) are parsed from, and raw,
\* the bytes that are hashed and measured (the two reads of the file, see
\* TextRead and RawRead); whether the chunker raises, the daemon's answer, and
\* failAt: which statement of the transaction the database fails (0: none;
\* -1: the SELECT of the document; 1: the document insert or update with the
\* deletion of the old chunks; 1 + i: the insert of chunk i; n + 2: the
\* commit).  The `return` of an unchanged file is inside the session scope,
\* which still commits: of the statements that can fail, that call makes the
\* SELECT and the commit, and a failure of either raises out of the scope.
IngestTx(svc, path, text, raw, docs, chs, docSeq, chunkSeq, chunkOK, daemon, failAt) ==
    LET existing == docs[path]
        digest == Sha256(raw)
        n == ChunkCount(text)
        emb == EmbedBatch(n, daemon)
        isNew == existing = NoDoc
        docId == IF isNew THEN docSeq ELSE existing.id
        rows == NewChunkRows(docId, chunkSeq, n, emb.vectors, Sha256(text))
        nFlush == Cardinality(rows) + 1
        docs1 == [docs EXCEPT ![path] = DocRow(docId, svc, path, text, raw, existing)]
        chs1 == chs \ ChunksOf(chs, existing.id)
        WorkingChunks(k) ==
            IF k = 0 THEN chs ELSE chs1 \cup { r \in rows : r.id < chunkSeq + (k - 1) }
        okUpTo == IF ConstraintsOK(WorkingChunks(nFlush)) THEN nFlush
                  ELSE CHOOSE k \in 0 .. nFlush - 1 :
                          /\ \A j \in 0 .. k : ConstraintsOK(WorkingChunks(j))
                          /\ ~ConstraintsOK(WorkingChunks(k + 1))
        failed == failAt # 0 \/ okUpTo < nFlush
        done == IF failAt = 0 THEN okUpTo ELSE Min(failAt - 1, okUpTo)
        attempted == IF failed THEN Min(done + 1, nFlush) ELSE nFlush
        before == [documents |-> docs, chunks |-> chs]
        working == [documents |-> IF done = 0 THEN docs ELSE docs1,
                    chunks |-> WorkingChunks(done)]
        after == SessionScope(before, working, failed)
        Quiet(outcome) ==
            [outcome |-> outcome, documents |-> docs, chunks |-> chs,
             docSeq |-> docSeq, chunkSeq |-> chunkSeq, removed |-> {},
             payloads |-> {}, relWrites |-> 0]
    IN  IF n = 0 THEN Quiet("skipped_empty")
        ELSE IF ~chunkOK THEN Quiet("chunker_error")
        ELSE IF emb.err # "" THEN Quiet("embed_error")
        ELSE IF Len(emb.vectors) # n THEN Quiet("count_mismatch")
        ELSE IF failAt = -1 THEN Quiet("tx_failed")
        ELSE IF Unchanged(existing, digest)
            THEN Quiet(IF failAt = n + 2 THEN "tx_failed" ELSE "unchanged")
        ELSE [outcome |-> IF failed THEN "tx_failed" ELSE "committed",
              documents |-> after.documents,
              chunks |-> after.chunks,
              docSeq |-> docSeq + (IF isNew /\ ~failed THEN 1 ELSE 0),
              chunkSeq |-> chunkSeq + (IF failed THEN 0 ELSE nFlush - 1),
              removed |-> IF failed THEN {} ELSE RelIds(chs, existing.id),
              payloads |-> IF failed THEN {}
                           ELSE { [chunk_id |-> r.id, document_id |-> docId] : r \in rows },
              relWrites |-> attempted]

\* ---------------------------------------------------------------- ingest()
NoLimit == [none |-> TRUE, n |-> 0]
Limit(n) == [none |-> FALSE, n |-> n]
Limits == {NoLimit, Limit(-1), Limit(0), Limit(1)}

\* discover(): the sorted paths of the source directory.
Discover == [i \in 1 .. NumFiles |-> i]

\* `if limit:` (markdown) and `if limit is not None:` (pdf, email), then files[:limit],
\* a slice: a negative limit counts from the end of the list.
ApplyLimit(svc, fs, limit) ==
    IF limit.none THEN fs
    ELSE IF svc = "md" /\ limit.n = 0 THEN fs
    ELSE IF limit.n < 0 THEN SubSeq(fs, 1, Max(0, Len(fs) + limit.n))
    ELSE SubSeq(fs, 1, Min(limit.n, Len(fs)))

\* A plausible slip: the loop of ingest() lets a file's exception escape.
LoopAfterReraise(outcome) == IF outcome \in Failures THEN "raise" ELSE "continue"

\* `try: self._ingest_file(path) except Exception: logger.exception(...)`: the
\* loop goes on to the next file whatever the file's outcome.
LoopAfter(outcome) == "continue"

NoRun == [status |-> "none", no |-> 0, files |-> <<>>, cursor |-> 1,
          visited |-> <<>>, failures |-> 0]

NoStep == [path |-> 0, phase |-> "none", first |-> 0, loaded |-> {}, outcome |-> "",
           removed |-> {}, payloads |-> {}, relWrites |-> 0, lexWrites |-> 0,
           late |-> FALSE, preUnchanged |-> FALSE, preSynced |-> FALSE,
           afterKill |-> FALSE]

\* The run once the file at the cursor is done with `outcome`.
FinishFile(r, outcome) ==
    [r EXCEPT !.visited = Append(@, r.files[r.cursor]),
              !.failures = IF outcome \in Failures THEN @ + 1 ELSE @,
              !.cursor = @ + 1,
              !.status = IF LoopAfter(outcome) = "raise" THEN "raised"
                         ELSE IF r.cursor + 1 > Len(r.files) THEN "returned"
                         ELSE "running"]

ChatIdle ==
    /\ schema = TestSchema /\ max_retries = 1 /\ gpc = "idle" /\ rpc = 0
    /\ messages = 0 /\ last_error = NoError /\ raised = NoError /\ answer = NoAnswer
    /\ last_raw_response = NoRaw /\ lastResp = NoResponse /\ log = <<>>

InitIngest ==
    /\ service \in {"md", "pdf", "email"}
    /\ mbox = (IF service = "email" THEN {NumFiles} ELSE {})
    /\ files = [p \in Paths |-> 1]
    /\ documents = [p \in Paths |-> NoDoc]
    /\ chunks = {}
    /\ lexical = {}
    /\ nextDocId = 1
    /\ nextChunkId = 1
    /\ run = NoRun
    /\ step = NoStep
    /\ edits = 0 /\ rebuilds = 0
    /\ ChatIdle
    /\ OthersIdle

\* What one _ingest_file call meets: the chunker raises; or the daemon's answer
\* is bad; or the answer is good and the transaction fails at flush failAt.
FileInputs(n) ==
    { [chunkOK |-> FALSE, daemon |-> <<>>, failAt |-> 0] }
    \cup { [chunkOK |-> TRUE, daemon |-> d, failAt |-> 0] : d \in DaemonAnswers(n) }
    \cup { [chunkOK |-> TRUE, daemon |-> [i \in 1 .. n |-> VectorDim], failAt |-> f] :
             f \in {-1} \cup (1 .. n + 2) }

\* A writer replaces a file: between two runs, or during one, between the two
\* reads the ingest makes of the file.  (A file replaced at another moment of a
\* run is read by the run either as it was or as it is now, so that write is
\* the same as one made before the run or after it.)
EditFile ==
    /\ edits < MaxEdits
    /\ \E p \in Paths : \E c \in FileContents \ {files[p]} :
          /\ run.status = "running" => (step.phase = "read" /\ p = step.path)
          /\ files' = [files EXCEPT ![p] = c]
    /\ edits' = edits + 1
    /\ UNCHANGED <<service, mbox, documents, chunks, lexical, nextDocId, nextChunkId,
                   run, step, rebuilds>>
    /\ UNCHANGED <<chatVars, otherVars>>

\* ingest(limit) up to its loop.
StartIngest ==
    /\ run.status # "running"
    /\ run.no < MaxRuns
    /\ \E limit \in Limits :
        LET fs == ApplyLimit(service, Discover, limit)
        IN  run' = [status |-> IF Len(fs) = 0 THEN "returned" ELSE "running",
                    no |-> run.no + 1, files |-> fs, cursor |-> 1,
                    visited |-> <<>>, failures |-> 0]
    /\ UNCHANGED <<service, mbox, files, documents, chunks, lexical, nextDocId,
                   nextChunkId, step, edits, rebuilds>>
    /\ UNCHANGED <<chatVars, otherVars>>

Pending == step.phase \in {"lex_remove", "lex_add"}
AtFile ==
    run.status = "running" /\ ~Pending /\ step.phase # "read" /\ run.cursor <= Len(run.files)

\* email.py: `if path.suffix.lower() != ".eml": continue`
SkipNonEml ==
    /\ AtFile
    /\ service = "email"
    /\ run.files[run.cursor] \in mbox
    /\ run' = FinishFile(run, "skipped_mbox")
    /\ UNCHANGED <<service, mbox, files, documents, chunks, lexical, nextDocId,
                   nextChunkId, step, edits, rebuilds>>
    /\ UNCHANGED <<chatVars, otherVars>>

\* _ingest_file is called on the file at the cursor and reads it for the
\* first time.  afterKill: the previous call on this path was interrupted.
ReadFile ==
    /\ AtFile
    /\ ~(service = "email" /\ run.files[run.cursor] \in mbox)
    /\ LET path == run.files[run.cursor]
       IN  step' = [NoStep EXCEPT !.path = path, !.phase = "read", !.first = files[path],
                                  !.afterKill = step.outcome = "interrupted"
                                                /\ step.path = path]
    /\ UNCHANGED <<service, mbox, files, documents, chunks, lexical, nextDocId,
                   nextChunkId, run, edits, rebuilds>>
    /\ UNCHANGED <<chatVars, otherVars>>

\* The rest of the _ingest_file call, from its second read of the file (md,
\* pdf) through the end of its transaction; a file that was not committed is
\* done, a committed one has its index update ahead.
\* The step also records what the call met: late (the transaction failed after
\* its first flush), preUnchanged (the stored digest was that of the bytes
\* hashed), preSynced (the index held exactly the document's chunk ids).
IngestFile ==
    /\ run.status = "running"
    /\ step.phase = "read"
    /\ LET path == step.path
           text == TextRead(service, step.first, files[path])
           raw == RawRead(service, step.first, files[path])
       IN \E inp \in FileInputs(ChunkCount(text)) :
            LET failAt == inp.failAt
                res == IngestTx(service, path, text, raw, documents, chunks, nextDocId,
                                nextChunkId, inp.chunkOK, inp.daemon, failAt)
                old == documents[path]
                phase == IF res.outcome # "committed" THEN "done"
                         ELSE IF res.removed # {} THEN "lex_remove" ELSE "lex_add"
            IN  /\ documents' = res.documents
                /\ chunks' = res.chunks
                /\ nextDocId' = res.docSeq
                /\ nextChunkId' = res.chunkSeq
                /\ step' = [path |-> path, phase |-> phase, first |-> step.first,
                            loaded |-> {}, outcome |-> res.outcome,
                            removed |-> res.removed, payloads |-> res.payloads,
                            relWrites |-> res.relWrites, lexWrites |-> 0,
                            late |-> res.outcome = "tx_failed" /\ res.relWrites >= 2,
                            preUnchanged |-> old # NoDoc /\ old.sha256 = Sha256(raw),
                            preSynced |-> LexIds(lexical, old.id) = RelIds(chunks, old.id),
                            afterKill |-> step.afterKill]
                /\ run' = IF phase = "done" THEN FinishFile(run, res.outcome) ELSE run
    /\ UNCHANGED <<service, mbox, files, lexical, edits, rebuilds>>
    /\ UNCHANGED <<chatVars, otherVars>>

\* `if removed_chunk_ids: self.bm25_service.remove_chunks(removed_chunk_ids)`
LexRemove ==
    /\ run.status = "running"
    /\ step.phase = "lex_remove"
    /\ \E end \in LexicalEnds :
        /\ lexical' = IF end = "raise_before_commit" THEN lexical
                      ELSE RemoveChunks(lexical, step.removed)
        /\ IF end = "ok"
           THEN /\ step' = [step EXCEPT !.phase = "lex_add", !.lexWrites = @ + 1]
                /\ run' = run
           ELSE /\ step' = [step EXCEPT !.phase = "done", !.lexWrites = @ + 1,
                                        !.outcome = "lexical_error"]
                /\ run' = FinishFile(run, "lexical_error")
    /\ UNCHANGED <<service, mbox, files, documents, chunks, nextDocId, nextChunkId, edits, rebuilds>>
    /\ UNCHANGED <<chatVars, otherVars>>

\* `self.bm25_service.add_documents(bm25_payloads)` and the return of _ingest_file.
LexAdd ==
    /\ run.status = "running"
    /\ step.phase = "lex_add"
    /\ \E end \in LexicalEnds :
        /\ lexical' = IF end = "raise_before_commit" THEN lexical
                      ELSE AddDocuments(lexical, step.payloads)
        /\ LET outcome == IF end = "ok" THEN "ingested" ELSE "lexical_error"
           IN  /\ step' = [step EXCEPT !.phase = "done", !.lexWrites = @ + 1,
                                       !.outcome = outcome]
               /\ run' = FinishFile(run, outcome)
    /\ UNCHANGED <<service, mbox, files, documents, chunks, nextDocId, nextChunkId, edits, rebuilds>>
    /\ UNCHANGED <<chatVars, otherVars>>

\* The process is killed between the commit of a file and the end of its
\* index update; what _ingest_file had still to do is not done.
Interrupt ==
    /\ run.status = "running"
    /\ Pending
    /\ run' = [run EXCEPT !.status = "killed"]
    /\ step' = [step EXCEPT !.phase = "done", !.outcome = "interrupted"]
    /\ UNCHANGED <<service, mbox, files, documents, chunks, lexical, nextDocId,
                   nextChunkId, edits, rebuilds>>
    /\ UNCHANGED <<chatVars, otherVars>>

\* An operator calls BM25IndexService.clear() while no ingest runs.  Of the
\* calls on the index made outside ingestion, rebuilds counts those that
\* changed it (one that raises before its commit changes nothing).
LexClear ==
    /\ run.status # "running"
    /\ rebuilds < MaxRebuilds
    /\ lexical' = Clear(lexical)
    /\ lexical' # lexical
    /\ rebuilds' = rebuilds + 1
    /\ UNCHANGED <<service, mbox, files, documents, chunks, nextDocId, nextChunkId,
                   run, step, edits>>
    /\ UNCHANGED <<chatVars, otherVars>>

\* An operator calls BM25IndexService.bulk_replace(documents) while no ingest
\* runs, with the records of the stored chunks of some of the documents.
LexBulkReplace ==
    /\ run.status # "running"
    /\ rebuilds < MaxRebuilds
    /\ \E ps \in SUBSET Paths :
          LET rows == UNION { ChunksOf(chunks, documents[p].id) : p \in ps }
          IN  lexical' = BulkReplace(lexical, { PayloadOf(ch) : ch \in rows })
    /\ lexical' # lexical
    /\ rebuilds' = rebuilds + 1
    /\ UNCHANGED <<service, mbox, files, documents, chunks, nextDocId, nextChunkId,
                   run, step, edits>>
    /\ UNCHANGED <<chatVars, otherVars>>

NextIngest ==
    \/ EditFile
    \/ StartIngest
    \/ SkipNonEml
    \/ ReadFile
    \/ IngestFile
    \/ LexRemove
    \/ LexAdd
    \/ Interrupt
    \/ LexClear
    \/ LexBulkReplace

SpecIngest == InitIngest /\ [][NextIngest]_vars

\* ---------------------------------------------------------------- ingestion claims
\* The index and the store disagree on the chunk ids of the document at path p.
Stale(docs, chs, lex, p) ==
    docs[p] # NoDoc /\ LexIds(lex, docs[p].id) # RelIds(chs, docs[p].id)

\* A file of the run has just been finished (the loop moved to the next one).
FileFinished == run'.cursor = run.cursor + 1

\* C5: an ingest call on a file whose bytes have the digest stored for its
\* path writes nothing: no Document or Chunk row is inserted, updated or
\* deleted, and neither remove_chunks nor add_documents is called; for each of
\* the three services and however often it is repeated.
C5_UnchangedReingestWritesNothing ==
    /\ [](step.preUnchanged =>
            step.relWrites = 0 /\ step.lexWrites = 0 /\ step.phase = "done")
    /\ [][(step'.preUnchanged /\ FileFinished) =>
            (documents' = documents /\ chunks' = chunks /\ lexical' = lexical)]_vars

C5_Witness ==
    /\ run.no = 3
    /\ step.preUnchanged
    /\ step.outcome = "unchanged"
    /\ step.phase = "done"
    /\ lexical # {}

\* Every chunk belongs to a document, and the chunks of a document are those
\* of one ingest: all cut from the same bytes and inserted one after the other
\* (consecutive ids in the order of the ordinals).
NoMix ==
    /\ \A ch \in chunks : \E p \in Paths : documents[p].id = ch.document_id
    /\ \A p \in Paths :
          documents[p] # NoDoc =>
              LET cs == ChunksOf(chunks, documents[p].id)
              IN  /\ cs # {}
                  /\ \A a \in cs : \A b \in cs :
                        a.of = b.of /\ a.id - b.id = a.ordinal - b.ordinal

\* C6: when a step of the transaction of a file fails, the store is rolled
\* back: the Document rows and the Chunk rows are those from before the call,
\* no state mixes chunks of two versions of a file, and no index write is
\* made for that file.
C6_FailedTransactionRollsBack ==
    /\ []NoMix
    /\ [][(step'.outcome = "tx_failed" /\ FileFinished) =>
            /\ documents' = documents
            /\ chunks' = chunks
            /\ lexical' = lexical
            /\ step'.lexWrites = 0
            /\ step'.phase = "done"]_vars

C6_Witness ==
    /\ step.outcome = "tx_failed"
    /\ step.late
    /\ step.relWrites >= 2
    /\ documents[step.path] # NoDoc
    /\ documents[step.path].sha256 # Sha256(files[step.path])

\* C7: in every committed state, the ordinals of the chunks of each document
\* are exactly 1..N, (document_id, ordinal) is unique, and every chunk has an
\* embedding of the configured dimension.
C7_OrdinalsContiguousEmbeddingsSized ==
    /\ \A p \in Paths :
          documents[p] # NoDoc =>
              LET cs == ChunksOf(chunks, documents[p].id)
              IN  { ch.ordinal : ch \in cs } = 1 .. Cardinality(cs)
    /\ \A a \in chunks : \A b \in chunks :
          (a.document_id = b.document_id /\ a.ordinal = b.ordinal) => a = b
    /\ \A ch \in chunks : ch.dim = VectorDim

C7_Witness ==
    /\ step.outcome = "ingested"
    /\ step.removed # {}
    /\ Cardinality(ChunksOf(chunks, documents[step.path].id)) = 2
    /\ run.failures >= 1
    /\ \E p \in Paths : p # step.path /\ documents[p] # NoDoc

\* C8 as stated: whenever an ingest of a new or changed file has completed
\* without error, the index holds for the document exactly the chunk ids the
\* store holds for it.
C8_NoDriftAfterIngest ==
    [][(FileFinished /\ step'.outcome = "ingested") =>
          LexIds(lexical', documents'[step'.path].id)
              = RelIds(chunks', documents'[step'.path].id)]_vars

\* C8 amended: whenever an ingest of a new or changed file has completed
\* without error, and the index held exactly the document's chunk ids when
\* that ingest began, the index holds for the document exactly the chunk ids
\* the store holds for it: no replaced id remains, every new id is there.
C8_NoDriftAfterIngestFromSync ==
    [][(FileFinished /\ step'.outcome = "ingested" /\ step'.preSynced) =>
          /\ LexIds(lexical', documents'[step'.path].id)
                = RelIds(chunks', documents'[step'.path].id)
          /\ step'.removed \cap { e.chunk_id : e \in lexical' } = {}
          /\ { x.chunk_id : x \in step'.payloads }
                \subseteq { e.chunk_id : e \in lexical' }]_vars

C8_Witness ==
    /\ step.phase = "done"
    /\ step.outcome = "ingested"
    /\ step.preSynced
    /\ step.removed # {}
    /\ step.lexWrites = 2
    /\ LexIds(lexical, documents[step.path].id) = RelIds(chunks, documents[step.path].id)

\* C9: an interruption between the commit of a file and the end of its index
\* update leaves the index stale for that file; and while a file is unchanged
\* (also since the first read of a call that is under way on it) and its
\* digest is the stored one, no later step of ingestion writes the index
\* entries of its document: a stale index stays stale until an operator
\* rebuilds it (clear, bulk_replace).
C9_InterruptedIndexStaysStale ==
    /\ [][(step'.outcome = "interrupted" /\ step.outcome # "interrupted") =>
            /\ lexical' = lexical
            /\ Stale(documents', chunks', lexical', step'.path)]_vars
    /\ [][\A p \in Paths :
            ( /\ Stale(documents, chunks, lexical, p)
              /\ ~(Pending /\ step.path = p)
              /\ rebuilds' = rebuilds
              /\ files'[p] = files[p]
              /\ (step.phase = "read" /\ step.path = p) => step.first = files[p]
              /\ documents[p].sha256 = Sha256(files[p]) ) =>
                /\ documents'[p] = documents[p]
                /\ ChunksOf(chunks', documents[p].id) = ChunksOf(chunks, documents[p].id)
                /\ LexIds(lexical', documents[p].id) = LexIds(lexical, documents[p].id)
                /\ Stale(documents', chunks', lexical', p)]_vars

C9_Witness ==
    /\ step.afterKill
    /\ step.outcome = "unchanged"
    /\ step.relWrites = 0 /\ step.lexWrites = 0
    /\ Stale(documents, chunks, lexical, step.path)

\* C10: a failure on one file skips only that file: the files of the run are
\* visited in the order of discovery, a run that is not killed visits all of
\* them, and ingest() never raises.
C10_FailureSkipsOnlyThatFile ==
    /\ run.status # "raised"
    /\ Len(run.visited) <= Len(run.files)
    /\ run.visited = SubSeq(run.files, 1, Len(run.visited))
    /\ run.cursor = Len(run.visited) + 1
    /\ run.failures <= Len(run.visited)
    /\ run.status = "returned" => run.visited = run.files
    /\ (run.status = "running" /\ ~Pending) => run.cursor <= Len(run.files)

C10_Witness ==
    /\ run.status = "returned"
    /\ run.visited = <<1, 2>>
    /\ run.failures = 1
    /\ step.path = 2
    /\ step.outcome = "ingested"
    /\ documents[1] = NoDoc

\* ---------------------------------------------------------------- RetrievalOrchestrator
\* The chunk ids a search can return, and the document that owns each in the
\* relational store (two chunks per document).
HitChunkIds == 1 .. MaxChunkId
Owner(c) == (c + 1) \div 2

\* hit["chunk_id"] of a BM25 hit that int() refuses (None).
InvalidId == 0

\* A hit as the orchestrator reads it: chunk_id and document_id; the BM25 index
\* stores the document id add_documents was given, the vector search selects
\* Chunk.document_id.
Hit(c) == [chunk_id |-> c, document_id |-> IF c = InvalidId THEN 0 ELSE Owner(c)]

Range(f) == { f[i] : i \in DOMAIN f }

\* The result lists of a search over ids: at most MaxHits hits, no id twice.
HitLists(ids) ==
    { [i \in DOMAIN l |-> Hit(l[i])] :
        l \in { x \in UNION { [1 .. k -> ids] : k \in 0 .. MaxHits } :
                  \A i \in DOMAIN x : \A j \in DOMAIN x : x[i] = x[j] => i = j } }

\* `try: chunk_id = int(hit.get("chunk_id")) except (TypeError, ValueError): continue`
ValidHit(hit) == hit.chunk_id # InvalidId

\* ensure_result over both loops: the entry of merged for a chunk id is built
\* from the payload of the first hit that carries it, BM25 hits first.
RECURSIVE EnsureAll(_, _)
EnsureAll(merged, hits) ==
    IF hits = <<>> THEN merged
    ELSE LET hit == Head(hits)
             c == hit.chunk_id
         IN  EnsureAll(IF ValidHit(hit) /\ c \notin DOMAIN merged
                       THEN [x \in DOMAIN merged \cup {c} |->
                               IF x = c THEN [chunk_id |-> c, document_id |-> hit.document_id]
                               ELSE merged[x]]
                       ELSE merged,
                       Tail(hits))

Merged(bm25, vec) == EnsureAll(EnsureAll(<<>>, bm25), vec)

\* `if chunk_id not in ordered_ids: ordered_ids.append(chunk_id)` over a hit list.
RECURSIVE AppendNew(_, _)
AppendNew(ids, hits) ==
    IF hits = <<>> THEN ids
    ELSE LET hit == Head(hits)
         IN  AppendNew(IF ValidHit(hit) /\ hit.chunk_id \notin Range(ids)
                       THEN Append(ids, hit.chunk_id) ELSE ids,
                       Tail(hits))

\* A plausible slip: the vector hits are appended first.
OrderedIdsVectorFirst(bm25, vec) == AppendNew(AppendNew(<<>>, vec), bm25)

\* ordered_ids: the BM25 hits' ids in hit order, then the vector hits' ids not
\* already there.
OrderedIds(bm25, vec) == AppendNew(AppendNew(<<>>, bm25), vec)

\* A plausible slip: `>` for `>=` in the cap test.
AcceptsOneMore(count, cap) == ~(count > cap)

\* `if doc_counts[result.document_id] >= self.diversity_cap: continue`
Accepts(count, cap) == ~(count >= cap)

CountOf(counts, d) == IF d \in DOMAIN counts THEN counts[d] ELSE 0

\* The selection loop from position i of ordered_ids on: skip at the cap,
\* append, count, and break once len(selected) >= final_limit.
RECURSIVE Walk(_, _, _, _, _, _, _)
Walk(ordered, merged, i, sel, counts, cap, limit) ==
    IF i > Len(ordered) THEN sel
    ELSE LET result == merged[ordered[i]]
             d == result.document_id
         IN  IF ~Accepts(CountOf(counts, d), cap)
             THEN Walk(ordered, merged, i + 1, sel, counts, cap, limit)
             ELSE LET sel2 == Append(sel, result)
                      counts2 == [x \in DOMAIN counts \cup {d} |->
                                    IF x = d THEN CountOf(counts, d) + 1 ELSE counts[x]]
                  IN  IF Len(sel2) >= limit THEN sel2
                      ELSE Walk(ordered, merged, i + 1, sel2, counts2, cap, limit)

\* RetrievalOrchestrator.retrieve once the two searches have returned.
Select(bm25, vec, cap, limit) ==
    Walk(OrderedIds(bm25, vec), Merged(bm25, vec), 1, <<>>, <<>>, cap, limit)

IngestIdleChat == ChatIdle /\ ChatIdleIngest

\* An orchestrator with its configuration, and what one retrieve() call will
\* meet: a blank question or a failing embed_query (no search runs), or the
\* hit lists of the two searches.
InitRetrieve ==
    /\ final_limit \in 0 .. MaxLimit
    /\ diversity_cap \in 0 .. MaxCap
    /\ \E mode \in {"blank", "embed_error", "ok"} :
          /\ question = (IF mode = "blank" THEN "blank" ELSE "text")
          /\ embedQueryOK = (mode # "embed_error")
          /\ IF mode = "ok"
             THEN /\ bm25_hits \in HitLists(HitChunkIds \cup {InvalidId})
                  /\ vector_hits \in HitLists(HitChunkIds)
             ELSE bm25_hits = <<>> /\ vector_hits = <<>>
    /\ selected = <<>>
    /\ rpos = "idle"
    /\ IngestIdleChat
    /\ StoreIdle
    /\ EmbedIdle
    /\ BuilderIdle /\ ChunkerIdle /\ QuoteIdle /\ EvalIdle

\* retrieve(question, session)
Retrieve ==
    /\ rpos = "idle"
    /\ IF question = "blank"
       THEN selected' = <<>> /\ rpos' = "returned"
       ELSE IF ~embedQueryOK
       THEN selected' = selected /\ rpos' = "raised"
       ELSE /\ selected' = Select(bm25_hits, vector_hits, diversity_cap, final_limit)
            /\ rpos' = "returned"
    /\ UNCHANGED <<final_limit, diversity_cap, question, embedQueryOK, bm25_hits, vector_hits>>
    /\ UNCHANGED <<chatVars, ingestVars, storeVars, embedVars, builderVars, chunkerVars,
                   quoteVars, evalVars>>

NextRetrieve == Retrieve

SpecRetrieve == InitRetrieve /\ [][NextRetrieve]_vars

\* ---------------------------------------------------------------- retrieval claims
SelectedIds == [i \in DOMAIN selected |-> selected[i].chunk_id]

\* C11: the list retrieve() returns has at most final_limit elements.
C11_AtMostFinalLimit ==
    rpos = "returned" => Len(selected) <= final_limit

\* C12: in the list retrieve() returns no document contributes more than
\* diversity_cap chunks, a chunk's document being its owner in the store,
\* whichever search found the chunk.
C12_AtMostCapPerDocument ==
    rpos = "returned" =>
        \A d \in { Owner(c) : c \in HitChunkIds } :
            Cardinality({ i \in DOMAIN selected : Owner(selected[i].chunk_id) = d })
                <= diversity_cap

C12_Witness ==
    /\ rpos = "returned"
    /\ diversity_cap = 1
    /\ Len(bm25_hits) = 2 /\ Len(vector_hits) = 3
    /\ bm25_hits[1].chunk_id = 1 /\ bm25_hits[2].chunk_id = 3
    /\ vector_hits[1].chunk_id = 1 /\ vector_hits[2].chunk_id = 2
    /\ vector_hits[3].chunk_id = 5
    /\ SelectedIds = <<1, 3, 5>>

\* The merged order as the specification words it.
BM25Ids == [i \in DOMAIN bm25_hits |-> bm25_hits[i].chunk_id]
VectorIds == [i \in DOMAIN vector_hits |-> vector_hits[i].chunk_id]
IsValidId(c) == c # InvalidId
IsNewToBM25(c) == c \notin Range(BM25Ids)
MergedOrder == SelectSeq(BM25Ids, IsValidId) \o SelectSeq(VectorIds, IsNewToBM25)

\* The positions of the merged order whose id is in the output.
Taken == { j \in DOMAIN MergedOrder : MergedOrder[j] \in Range(SelectedIds) }
LastTaken == IF Taken = {} THEN 0 ELSE CHOOSE j \in Taken : \A k \in Taken : k <= j
\* Position j was treated by the greedy rule: taken exactly when fewer than
\* diversity_cap earlier taken positions have its document.
Greedy(j) ==
    j \in Taken <=>
        Cardinality({ k \in Taken : k < j /\ Owner(MergedOrder[k]) = Owner(MergedOrder[j]) })
            < diversity_cap

\* C13: the output is the greedy walk over the merged order (BM25 ids in hit
\* order, then the vector ids not yet present): a subsequence of it, no id
\* twice, only ids of the union of the hits, an id skipped only when its
\* document was at the cap, the walk ending before the end of the order only
\* with final_limit reached; and BM25 = [A1, B1, A2], vector = [C1, A1, B2],
\* cap 2, limit 4 give [A1, B1, A2, C1].
C13_GreedyWalkOverMergedOrder ==
    (rpos = "returned" /\ question = "text") =>
        /\ \A i \in DOMAIN SelectedIds : \A j \in DOMAIN SelectedIds :
              SelectedIds[i] = SelectedIds[j] => i = j
        /\ Range(SelectedIds) \subseteq
              ((Range(BM25Ids) \ {InvalidId}) \cup Range(VectorIds))
        /\ SelectedIds = SelectSeq(MergedOrder, LAMBDA c : c \in Range(SelectedIds))
        /\ \A j \in 1 .. LastTaken : Greedy(j)
        /\ Len(selected) < final_limit => \A j \in DOMAIN MergedOrder : Greedy(j)
        /\ ( /\ BM25Ids = <<1, 3, 2>> /\ VectorIds = <<5, 1, 4>>
             /\ diversity_cap = 2 /\ final_limit = 4 ) => SelectedIds = <<1, 3, 2, 5>>

C13_Witness ==
    /\ rpos = "returned"
    /\ BM25Ids = <<1, 3, 2>> /\ VectorIds = <<5, 1, 4>>
    /\ diversity_cap = 2 /\ final_limit = 4
    /\ SelectedIds = <<1, 3, 2, 5>>

\* ---------------------------------------------------------------- RetrievalStore
\* QAContext.chunk_id IS NULL; QARun.latency_ms IS NULL.
NullChunk == 0
NoLatency == -1

\* answer_json: the dump of a validated ChatAnswer, by its abstain flag.
AnswerJsons == { [abstain |-> TRUE], [abstain |-> FALSE] }
Latencies == {123}
QARunIds == 1 .. MaxQARuns

Put(f, k, v) == [x \in DOMAIN f \cup {k} |-> IF x = k THEN v ELSE f[x]]

\* QARun.started_at has server_default=func.now() and is set nowhere else: the
\* database stamps the row with the time at which the transaction that inserts
\* it began.  LastStart: the latest time stamped so far (0: none); a
\* transaction begun after those of all the runs of the table is at LaterStart.
LastStart(runs) ==
    IF DOMAIN runs = {} THEN 0
    ELSE CHOOSE t \in { runs[r].started_at : r \in DOMAIN runs } :
            \A r \in DOMAIN runs : runs[r].started_at <= t
LaterStart(runs) == LastStart(runs) + 1

\* create_run: a QARun with latency_ms=None, abstained=False, added and
\* flushed in a transaction begun at t.  (QARun.id is a uuid4; the model names
\* the runs by numbers, which order nothing.)
CreateRun(runs, rid, q, t) ==
    Put(runs, rid, [question |-> q, started_at |-> t, latency_ms |-> NoLatency,
                    abstained |-> FALSE])

\* write_contexts: `for rank, context in enumerate(contexts, start=1)`, one
\* QAContext each, handed to session.add and no more: the objects wait in the
\* session, in the order added, for a flush to insert them.  pos is the place
\* of the result in the list passed.
WriteContexts(pend, rid, results) ==
    pend \o [i \in DOMAIN results |->
                [run_id |-> rid, chunk_id |-> results[i], rank |-> i, pos |-> i]]

\* The foreign keys of qa_contexts (run_id -> qa_runs.id, chunk_id ->
\* chunks.id): the INSERT of an object whose run or chunk is no row is refused
\* with IntegrityError.
Refused(pend, runs, chs) ==
    \E i \in DOMAIN pend :
        \/ pend[i].run_id \notin DOMAIN runs
        \/ pend[i].chunk_id \notin { ch.id : ch \in chs }

\* The INSERTs of a flush: the pending objects in the order they were added,
\* each with the next id of the sequence.
InsertContexts(ctxs, seq, pend) ==
    ctxs \cup { [id |-> seq + i - 1, run_id |-> pend[i].run_id,
                 chunk_id |-> pend[i].chunk_id, rank |-> pend[i].rank,
                 pos |-> pend[i].pos] : i \in DOMAIN pend }

\* write_answer: session.merge(QAAnswer(run_id, answer_json)), an upsert.
WriteAnswer(answers, rid, json) == Put(answers, rid, json)

\* finalize_run: a missing run is logged and left; else latency_ms and
\* abstained are set from the arguments.
FinalizeRun(runs, rid, latency, abstained) ==
    IF rid \notin DOMAIN runs THEN runs
    ELSE [runs EXCEPT ![rid] = [@ EXCEPT !.latency_ms = latency,
                                         !.abstained = abstained]]

ContextsOf(ctxs, rid) == { c \in ctxs : c.run_id = rid }

\* ORDER BY QAContext.rank
RECURSIVE ByRank(_)
ByRank(ctxs) ==
    IF ctxs = {} THEN <<>>
    ELSE LET first == CHOOSE c \in ctxs : \A d \in ctxs :
                          c.rank < d.rank \/ (c.rank = d.rank /\ c.id <= d.id)
         IN  <<first>> \o ByRank(ctxs \ {first})

\* The row of the outer join with Chunk: the chunk, or none.
ChunkOf(chs, ctx) == { ch \in chs : ch.id = ctx.chunk_id }

\* `if chunk is None: continue`, else a ContextSnippet of the chunk.
RECURSIVE SnippetsOf(_, _)
SnippetsOf(rows, chs) ==
    IF rows = <<>> THEN <<>>
    ELSE LET ctx == Head(rows)
             found == ChunkOf(chs, ctx)
         IN  (IF found = {} THEN <<>>
              ELSE LET ch == CHOOSE x \in found : TRUE
                   IN  << [chunk_id |-> ch.id, document_id |-> ch.document_id] >>)
             \o SnippetsOf(Tail(rows), chs)

NoReplay == [found |-> FALSE]

\* A plausible slip: an inner join, which loses the run's record when a
\* context has no chunk.
ReplayInnerJoin(runs, answers, ctxs, chs, rid) ==
    IF rid \notin DOMAIN runs \/ rid \notin DOMAIN answers THEN NoReplay
    ELSE IF \E c \in ContextsOf(ctxs, rid) : ChunkOf(chs, c) = {} THEN NoReplay
    ELSE [found |-> TRUE, run_id |-> rid, question |-> runs[rid].question,
          latency_ms |-> runs[rid].latency_ms, abstained |-> runs[rid].abstained,
          answer |-> answers[rid],
          snippets |-> SnippetsOf(ByRank(ContextsOf(ctxs, rid)), chs)]

\* replay: None without run or answer; else the run's fields, the answer and
\* the snippets of the contexts that still have a chunk, by rank.
Replay(runs, answers, ctxs, chs, rid) ==
    IF rid \notin DOMAIN runs THEN NoReplay
    ELSE IF rid \notin DOMAIN answers THEN NoReplay
    ELSE [found |-> TRUE, run_id |-> rid, question |-> runs[rid].question,
          latency_ms |-> runs[rid].latency_ms, abstained |-> runs[rid].abstained,
          answer |-> answers[rid],
          snippets |-> SnippetsOf(ByRank(ContextsOf(ctxs, rid)), chs)]

\* ORDER BY started_at DESC LIMIT limit: the run ids in an order the database
\* may return them in.  Runs with one started_at come in any order.
Newest(runs, limit) ==
    LET n == Cardinality(DOMAIN runs)
        orders == { o \in [1 .. n -> DOMAIN runs] :
                      /\ \A i \in 1 .. n : \A j \in 1 .. n : o[i] = o[j] => i = j
                      /\ \A i \in 1 .. n : \A j \in 1 .. n :
                            i < j => runs[o[i]].started_at >= runs[o[j]].started_at }
    IN  { SubSeq(o, 1, Min(limit, n)) : o \in orders }

\* list_runs: the lists of summaries it may return.
ListRuns(runs, limit) ==
    { [i \in DOMAIN ids |->
          [run_id |-> ids[i], question |-> runs[ids[i]].question,
           started_at |-> runs[ids[i]].started_at,
           latency_ms |-> runs[ids[i]].latency_ms, abstained |-> runs[ids[i]].abstained]] :
      ids \in Newest(runs, limit) }

\* QAContext.chunk_id is ForeignKey("chunks.id", ondelete="SET NULL"): a chunk
\* row deleted in the database leaves its contexts with a null link.
DbDeleteChunks(ctxs, ids) ==
    { [c EXCEPT !.chunk_id = IF @ \in ids THEN NullChunk ELSE @] : c \in ctxs }

\* Chunk.contexts is relationship(..., cascade="all, delete"): for a chunk
\* deleted through the session (the orphans of document.chunks.clear()) the
\* flush loads the QAContext rows that link to it.
LoadContexts(ctxs, ids) == { c.id : c \in { x \in ctxs : x.chunk_id \in ids } }

\* The rest of that flush: the rows loaded are deleted, then the chunk rows;
\* a row that links to one of the chunks and was not loaded (it was committed
\* after the load: the isolation level is READ COMMITTED) is left to the
\* foreign key.
OrmDeleteChunks(ctxs, loaded, ids) ==
    DbDeleteChunks({ c \in ctxs : c.id \notin loaded }, ids)

\* ---------------------------------------------------------------- the session
\* The qa_* tables as the session holds them: the rows it sees, the sequence
\* of qa_contexts.id and the objects it has not flushed.
SessionView == [runs |-> qa_runs, contexts |-> qa_contexts, answers |-> qa_answers,
                seq |-> nextCtxId, pending |-> pending]

\* What a rollback, or a close without commit, leaves to the session: the
\* committed rows, nothing pending.  (Row ids are names: the sequence is
\* modelled as advancing on commit only.)
RolledBack == [runs |-> durable.runs, contexts |-> durable.contexts,
               answers |-> durable.answers, seq |-> durable.seq, pending |-> <<>>]

\* session.commit(): what the other sessions read from then on.
Committed(st) == [runs |-> st.runs, contexts |-> st.contexts, answers |-> st.answers,
                  seq |-> st.seq]

\* session.flush(): the pending objects are inserted.
Flush(st) ==
    [st EXCEPT !.contexts = InsertContexts(@, st.seq, st.pending),
               !.seq = @ + Len(st.pending), !.pending = <<>>]

\* Whether the operation flushes the session.  create_run calls flush().
\* session.merge (write_answer) flushes the session (autoflush is on) before
\* it looks the row up, whatever the identity map holds.  session.get
\* (finalize_run) looks the run up by its key: a SELECT, before which the
\* session flushes, unless the object is still in the identity map, which
\* holds it weakly (a.autoflush: it is not).
Flushes(op, st, a) ==
    CASE op = "create_run" -> TRUE
      [] op = "write_answer" -> TRUE
      [] op = "finalize_run" -> a.autoflush \/ a.run_id \notin DOMAIN st.runs
      [] OTHER -> FALSE

\* The rows of qa_runs at the INSERTs of the flush of the operation: the run
\* of create_run is inserted before the contexts.
RunsAtFlush(op, st, a) ==
    IF op = "create_run" THEN CreateRun(st.runs, a.run_id, a.question, a.started_at)
    ELSE st.runs

\* The operation raises IntegrityError: its flush is refused.
Raises(op, st, a, chs) ==
    Flushes(op, st, a) /\ Refused(st.pending, RunsAtFlush(op, st, a), chs)

\* One operation of the store on the session, with the arguments of the call.
ApplyOp(op, st, a) ==
    LET fl == IF Flushes(op, st, a) THEN Flush(st) ELSE st
    IN  CASE op = "create_run" ->
                [fl EXCEPT !.runs = CreateRun(@, a.run_id, a.question, a.started_at)]
          [] op = "write_contexts" ->
                [st EXCEPT !.pending = WriteContexts(@, a.run_id, a.results)]
          [] op = "write_answer" ->
                [fl EXCEPT !.answers = WriteAnswer(@, a.run_id, a.answer_json)]
          [] op = "finalize_run" ->
                [fl EXCEPT !.runs = FinalizeRun(@, a.run_id, a.latency_ms, a.abstained)]
          [] OTHER -> st

\* A call of the service or of the store: its statements in order, up to the
\* first that raises, which is statement number failAt (0: none is made to
\* raise) or the first whose flush the database refuses.
RECURSIVE ServiceCall(_, _, _, _, _)
ServiceCall(steps, st, a, failAt, chs) ==
    IF steps = <<>> THEN [st |-> st, ops |-> <<>>, failed |-> FALSE]
    ELSE IF failAt = 1 \/ Raises(Head(steps), st, a, chs)
        THEN [st |-> st, ops |-> <<>>, failed |-> TRUE]
    ELSE LET rest == ServiceCall(Tail(steps), ApplyOp(Head(steps), st, a), a,
                                 IF failAt = 0 THEN 0 ELSE failAt - 1, chs)
         IN  [st |-> rest.st, ops |-> <<Head(steps)>> \o rest.ops, failed |-> rest.failed]

\* The arguments of a call, those it does not take left blank.
NoArgs == [run_id |-> 0, question |-> 0, started_at |-> 0, results |-> <<>>,
           answer_json |-> [abstain |-> FALSE], latency_ms |-> 0, abstained |-> FALSE,
           autoflush |-> TRUE]

\* The session after a step.
SetSession(st) ==
    /\ qa_runs' = st.runs
    /\ qa_contexts' = st.contexts
    /\ qa_answers' = st.answers
    /\ nextCtxId' = st.seq
    /\ pending' = st.pending

\* ---------------------------------------------------------------- store under arbitrary calls
\* A database into which two markdown files were ingested (two chunks and one).
IngestedFiles == [p \in Paths |-> IF p = 1 THEN 2 ELSE 1]
IngestedStore ==
    /\ service = "md" /\ mbox = {} /\ files = IngestedFiles
    /\ documents = [p \in Paths |-> DocRow(p, "md", p, IngestedFiles[p], IngestedFiles[p], NoDoc)]
    /\ chunks = UNION { NewChunkRows(p, IF p = 1 THEN 1 ELSE 2 * p - 1,
                                     ChunkCount(IngestedFiles[p]),
                                     [i \in 1 .. ChunkCount(IngestedFiles[p]) |-> VectorDim],
                                     Sha256(IngestedFiles[p])) : p \in Paths }
    /\ lexical = { [chunk_id |-> ch.id, document_id |-> ch.document_id] : ch \in chunks }
    /\ nextDocId = NumFiles + 1
    /\ nextChunkId = 2 * NumFiles
    /\ run = NoRun /\ step = NoStep /\ edits = 0 /\ rebuilds = 0

\* The lists of results a caller passes to write_contexts: chunks of the store.
ResultLists ==
    { l \in UNION { [1 .. k -> { ch.id : ch \in chunks }] : k \in 1 .. MaxResults } :
        \A i \in DOMAIN l : \A j \in DOMAIN l : l[i] = l[j] => i = j }

InitStore ==
    /\ IngestedStore
    /\ ChatIdle
    /\ RetrievalIdle
    /\ StoreIdle
    /\ EmbedIdle
    /\ BuilderIdle /\ ChunkerIdle /\ QuoteIdle /\ EvalIdle

frameIngest == <<service, mbox, files, documents, chunks, lexical, nextDocId, nextChunkId,
                 run, step, edits, rebuilds>>

\* One call of a RetrievalStore method on the session of a caller that owns
\* it through session_scope: an exception leaves through the scope, which
\* rolls back.
StoreCall(op, a) ==
    LET out == ServiceCall(<<op>>, SessionView, a, 0, chunks)
    IN  /\ SetSession(SessionScope(RolledBack, out.st, out.failed))
        /\ UNCHANGED <<durable, query, oplog, deletions, lastRead>>
        /\ UNCHANGED <<chatVars, frameIngest, retrievalVars, embedVars, builderVars,
                       chunkerVars, quoteVars, evalVars>>

\* create_run, in the transaction of the run created last (the session was
\* not committed since) or in one begun later.
StoreCreateRun ==
    /\ Cardinality(DOMAIN qa_runs) < MaxStoreRuns
    /\ LET rid == Cardinality(DOMAIN qa_runs) + 1
       IN  \E t \in {LastStart(qa_runs), LaterStart(qa_runs)} :
              /\ t > 0
              /\ StoreCall("create_run",
                           [NoArgs EXCEPT !.run_id = rid, !.question = rid, !.started_at = t])

\* The lists passed to write_contexts by the callers of this specification:
\* the first chunk of a document, of one or of several.
StoreResultLists ==
    { l \in ResultLists :
        \A i \in DOMAIN l : \E ch \in chunks : ch.id = l[i] /\ ch.ordinal = 1 }

StoreWriteContexts ==
    \E rid \in DOMAIN qa_runs : \E results \in StoreResultLists :
        /\ Cardinality(qa_contexts) + Len(pending) + Len(results) <= MaxCtxRows
        /\ StoreCall("write_contexts", [NoArgs EXCEPT !.run_id = rid, !.results = results])

\* Whether session.get goes to the database and so flushes first: either,
\* while there is something to flush (with nothing pending a flush does
\* nothing).
LookupFlushes == IF pending = <<>> THEN {TRUE} ELSE BOOLEAN

StoreWriteAnswer ==
    \E rid \in DOMAIN qa_runs : \E json \in AnswerJsons :
        StoreCall("write_answer", [NoArgs EXCEPT !.run_id = rid, !.answer_json = json])

StoreFinalizeRun ==
    \E rid \in QARunIds : \E latency \in Latencies : \E abstained \in BOOLEAN :
      \E fl \in LookupFlushes :
        StoreCall("finalize_run",
                  [NoArgs EXCEPT !.run_id = rid, !.latency_ms = latency,
                                 !.abstained = abstained, !.autoflush = fl])

\* The end of the scope of the session: commit(), which flushes first; a
\* refused flush raises and the scope rolls back.
StoreCommit ==
    /\ SessionView # RolledBack
    /\ LET failed == Refused(pending, qa_runs, chunks)
           after == SessionScope(RolledBack, Flush(SessionView), failed)
       IN  /\ SetSession(after)
           /\ durable' = Committed(after)
    /\ lastRead' = NoRead
    /\ UNCHANGED <<query, oplog, deletions>>
    /\ UNCHANGED <<chatVars, frameIngest, retrievalVars, embedVars, builderVars, chunkerVars,
                   quoteVars, evalVars>>

\* The owner of the session raises inside the scope: rollback().
StoreRollback ==
    /\ SessionView # RolledBack
    /\ SetSession(RolledBack)
    /\ UNCHANGED <<durable, query, oplog, deletions, lastRead>>
    /\ UNCHANGED <<chatVars, frameIngest, retrievalVars, embedVars, builderVars, chunkerVars,
                   quoteVars, evalVars>>

\* The INSERT of a QAContext row locks the chunk row it refers to (FOR KEY
\* SHARE) until its transaction ends: a DELETE of one of these chunks by
\* another session waits for that.
Locked(ids) == \E c \in qa_contexts \ durable.contexts : c.chunk_id \in ids

\* A file was edited and ingest(limit) runs over the files up to it, those
\* before it unchanged: the _ingest_file call on the edited file, from its
\* reads of the file (`first` and then `second`, a writer having replaced the
\* file between the two if they differ) into the flush that replaces the chunks
\* of its document, up to the load of the QAContext rows of the orphans: those
\* committed, the session of the ingest being another than that of the store.
\* The chunker and the daemon are taken to answer well and the database to
\* accept the rows: a call that fails leaves the tables as they were.
ReingestDocument ==
    /\ deletions < MaxDeletions
    /\ run.status # "running"
    /\ query.phase \in {"idle", "synthesis", "answered", "done", "failed"}
    /\ \E p \in Paths : \E first \in FileContents \ {files[p]} : \E second \in FileContents :
          LET text == TextRead(service, first, second)
              raw == RawRead(service, first, second)
              n == ChunkCount(text)
              old == documents[p]
              res == IngestTx(service, p, text, raw, documents, chunks, nextDocId,
                              nextChunkId, TRUE, [i \in 1 .. n |-> VectorDim], 0)
          IN  /\ service = "email" => second = first
              /\ res.outcome = "committed"
              /\ files' = [files EXCEPT ![p] = second]
              /\ run' = [status |-> "running", no |-> run.no + 1,
                         files |-> SubSeq(Discover, 1, p), cursor |-> p,
                         visited |-> SubSeq(Discover, 1, p - 1), failures |-> 0]
              /\ step' = [NoStep EXCEPT
                            !.path = p, !.phase = "flush", !.first = first,
                            !.loaded = LoadContexts(durable.contexts,
                                                    RelIds(chunks, old.id))]
    /\ deletions' = deletions + 1
    /\ UNCHANGED <<service, mbox, documents, chunks, lexical, nextDocId, nextChunkId,
                   edits, rebuilds>>
    /\ UNCHANGED <<qa_runs, qa_contexts, qa_answers, nextCtxId, pending, durable, query, oplog,
                   lastRead>>
    /\ UNCHANGED <<chatVars, retrievalVars, embedVars, builderVars, chunkerVars,
                   quoteVars, evalVars>>

\* The rest of the transaction of that call: the rows loaded and the orphaned
\* chunks are deleted, the new chunks inserted, the session committed.  The
\* index update is still ahead (LexRemove, LexAdd), and the process may be
\* killed before it (Interrupt).
ReingestCommit ==
    /\ run.status = "running"
    /\ step.phase = "flush"
    /\ LET p == step.path
           text == TextRead(service, step.first, files[p])
           raw == RawRead(service, step.first, files[p])
           n == ChunkCount(text)
           old == documents[p]
           res == IngestTx(service, p, text, raw, documents, chunks, nextDocId,
                           nextChunkId, TRUE, [i \in 1 .. n |-> VectorDim], 0)
       IN  /\ ~Locked(res.removed)
           /\ documents' = res.documents
           /\ chunks' = res.chunks
           /\ nextDocId' = res.docSeq
           /\ nextChunkId' = res.chunkSeq
           /\ qa_contexts' = OrmDeleteChunks(qa_contexts, step.loaded, res.removed)
           /\ durable' = [durable EXCEPT
                             !.contexts = OrmDeleteChunks(@, step.loaded, res.removed)]
           /\ step' = [path |-> p,
                       phase |-> IF res.removed # {} THEN "lex_remove" ELSE "lex_add",
                       first |-> step.first, loaded |-> {},
                       outcome |-> res.outcome,
                       removed |-> res.removed, payloads |-> res.payloads,
                       relWrites |-> res.relWrites, lexWrites |-> 0,
                       late |-> FALSE, preUnchanged |-> FALSE,
                       preSynced |-> LexIds(lexical, old.id) = RelIds(chunks, old.id),
                       afterKill |-> FALSE]
    /\ lastRead' = NoRead
    /\ UNCHANGED <<service, mbox, files, lexical, run, edits, rebuilds>>
    /\ UNCHANGED <<qa_runs, qa_answers, nextCtxId, pending, query, oplog, deletions>>
    /\ UNCHANGED <<chatVars, retrievalVars, embedVars, builderVars, chunkerVars,
                   quoteVars, evalVars>>

\* Chunk rows are deleted in the database (DELETE FROM chunks): the foreign
\* key of qa_contexts sets the links to them to null.
DeleteChunkRows ==
    /\ deletions < MaxDeletions
    /\ step.phase # "flush"
    /\ query.phase \in {"idle", "synthesis", "answered", "done", "failed"}
    /\ \E gone \in (SUBSET chunks) \ {{}} :
          LET ids == { ch.id : ch \in gone }
          IN  /\ ~Locked(ids)
              /\ chunks' = chunks \ gone
              /\ qa_contexts' = DbDeleteChunks(qa_contexts, ids)
              /\ durable' = [durable EXCEPT !.contexts = DbDeleteChunks(@, ids)]
    /\ deletions' = deletions + 1
    /\ lastRead' = NoRead
    /\ UNCHANGED <<service, mbox, files, documents, lexical, nextDocId, nextChunkId,
                   run, step, edits, rebuilds>>
    /\ UNCHANGED <<qa_runs, qa_answers, nextCtxId, pending, query, oplog>>
    /\ UNCHANGED <<chatVars, retrievalVars, embedVars, builderVars, chunkerVars,
                   quoteVars, evalVars>>

NextStore ==
    \/ StoreCreateRun
    \/ StoreWriteContexts
    \/ StoreWriteAnswer
    \/ StoreFinalizeRun
    \/ StoreCommit
    \/ StoreRollback
    \/ ReingestDocument
    \/ ReingestCommit
    \/ LexRemove
    \/ LexAdd
    \/ Interrupt
    \/ DeleteChunkRows

SpecStore == InitStore /\ [][NextStore]_vars

\* ---------------------------------------------------------------- run store claims
\* C14: the ranks of the QAContext rows stored for each run are exactly 1..N,
\* none missing and none twice, each the place of its result in the list
\* passed to write_contexts.
C14_RanksAreOneToN ==
    \A rid \in DOMAIN durable.runs :
        LET rows == ContextsOf(durable.contexts, rid)
        IN  /\ { c.rank : c \in rows } = 1 .. Cardinality(rows)
            /\ \A c \in rows : c.rank = c.pos

\* C15: every run that has an answer has abstained equal to the answer's
\* abstain flag.
C15_AbstainedMatchesAnswer ==
    \A rid \in DOMAIN qa_runs :
        rid \in DOMAIN qa_answers => qa_runs[rid].abstained = qa_answers[rid].abstain

\* C18: a deletion of chunks leaves every QAContext row stored for a run in
\* place, its rank unchanged and its link to a deleted chunk null: the rows of
\* a run never get fewer.
C18_ChunkDeletionKeepsContexts ==
    [][ \A c \in durable.contexts :
            \E d \in durable.contexts' :
                /\ d.id = c.id /\ d.run_id = c.run_id /\ d.rank = c.rank
                /\ d.chunk_id \in {c.chunk_id, NullChunk}
                /\ (d.chunk_id = NullChunk) <=>
                      (c.chunk_id = NullChunk \/ c.chunk_id \notin { ch.id : ch \in chunks' })
      ]_vars

\* ---------------------------------------------------------------- RetrievalService
\* The questions asked, numbered: the n-th request asks question n.
Questions == 1 .. MaxQARuns
DefaultLimit == 20

\* RetrievalService.retrieve: the orchestrator, then create_run, then
\* write_contexts.
RetrieveSteps == <<"retrieval", "create_run", "write_contexts">>

\* A plausible slip: the run is finalized before its answer is stored.
FinalizeStepsReversed == <<"finalize_run", "write_answer">>

\* RetrievalService.finalize: write_answer, then finalize_run.
FinalizeSteps == <<"write_answer", "finalize_run">>

\* ---------------------------------------------------------------- query pipeline
\* The request handler calls RetrievalService.retrieve, awaits the synthesis
\* and calls RetrievalService.finalize, all on the session of the request,
\* which is that of get_session: one session_scope around the request, which
\* commits when the handler has returned and rolls back when it raised.
\* Neither retrieve nor finalize commits.  The requests come one after the
\* other (a new one when the last has ended), so the transaction of each
\* begins after those of all the runs stored.
QueryRetrieve ==
    /\ query.phase \in {"idle", "done", "failed"}
    /\ Len(oplog) < MaxQARuns
    /\ \E results \in ResultLists \cup {<<>>} : \E failAt \in {0, 1, 3} :
          LET a == [NoArgs EXCEPT !.run_id = Len(oplog) + 1, !.question = Len(oplog) + 1,
                                  !.started_at = LaterStart(qa_runs), !.results = results]
              out == ServiceCall(RetrieveSteps, SessionView, a, failAt, chunks)
              after == SessionScope(RolledBack, out.st, out.failed)
          IN  /\ failAt = 1 => results = <<>>
              /\ Cardinality(qa_contexts) + Len(results) <= MaxCtxRows
              /\ SetSession(after)
              /\ oplog' = Append(oplog, out.ops)
              /\ query' = [phase |-> IF out.failed THEN "failed" ELSE "synthesis",
                           method |-> "retrieve", at |-> Len(out.ops), run_id |-> a.run_id,
                           contexts |-> results, answer |-> [abstain |-> FALSE],
                           failure |-> IF out.failed THEN "retrieve_error" ELSE "none"]
    /\ lastRead' = NoRead
    /\ UNCHANGED <<durable, deletions>>
    /\ UNCHANGED <<chatVars, frameIngest, retrievalVars, embedVars, builderVars, chunkerVars,
                   quoteVars, evalVars>>

\* ChatService.generate returns an answer, or raises: the exception leaves
\* the handler and the scope of the session rolls back.
QuerySynthesis ==
    /\ query.phase = "synthesis"
    /\ \/ /\ \E json \in AnswerJsons :
                query' = [query EXCEPT !.phase = "answered", !.answer = json]
          /\ UNCHANGED <<qa_runs, qa_contexts, qa_answers, nextCtxId, pending, lastRead>>
       \/ /\ query' = [query EXCEPT !.phase = "failed", !.failure = "synthesis_error"]
          /\ SetSession(RolledBack)
          /\ lastRead' = NoRead
    /\ UNCHANGED <<durable, oplog, deletions>>
    /\ UNCHANGED <<chatVars, frameIngest, retrievalVars, embedVars, builderVars, chunkerVars,
                   quoteVars, evalVars>>

\* The request is cancelled while it waits on the model, or before it
\* finalizes: CancelledError is no Exception, the scope goes through its
\* `finally` only, and session.close() drops the transaction uncommitted.
QueryCancel ==
    /\ query.phase \in {"synthesis", "answered"}
    /\ query' = [query EXCEPT !.phase = "failed", !.failure = "cancelled"]
    /\ SetSession(RolledBack)
    /\ lastRead' = NoRead
    /\ UNCHANGED <<durable, oplog, deletions>>
    /\ UNCHANGED <<chatVars, frameIngest, retrievalVars, embedVars, builderVars, chunkerVars,
                   quoteVars, evalVars>>

\* RetrievalService.finalize and the return of the handler: the merge of
\* write_answer flushes the contexts (refused if a chunk of theirs is gone:
\* IntegrityError, rollback), finalize_run, and the scope commits.
QueryFinalize ==
    /\ query.phase = "answered"
    /\ \E latency \in Latencies :
          LET a == [NoArgs EXCEPT !.run_id = query.run_id, !.answer_json = query.answer,
                                  !.latency_ms = latency,
                                  !.abstained = query.answer.abstain]
              out == ServiceCall(FinalizeSteps, SessionView, a, 0, chunks)
              after == SessionScope(RolledBack, out.st, out.failed)
          IN  /\ SetSession(after)
              /\ durable' = Committed(after)
              /\ oplog' = [oplog EXCEPT ![query.run_id] = @ \o out.ops]
              /\ query' = [query EXCEPT
                              !.phase = IF out.failed THEN "failed" ELSE "done",
                              !.method = "finalize", !.at = Len(out.ops),
                              !.failure = IF out.failed THEN "IntegrityError" ELSE "none"]
    /\ lastRead' = NoRead
    /\ UNCHANGED deletions
    /\ UNCHANGED <<chatVars, frameIngest, retrievalVars, embedVars, builderVars, chunkerVars,
                   quoteVars, evalVars>>

\* GET /api/replay/{run_id}: replay in a session of its own.
ReadReplay ==
    /\ \E rid \in QARunIds :
          lastRead' = [op |-> "replay", run_id |-> rid,
                       result |-> Replay(durable.runs, durable.answers, durable.contexts,
                                         chunks, rid)]
    /\ UNCHANGED <<qa_runs, qa_contexts, qa_answers, nextCtxId, pending, durable, query, oplog,
                   deletions>>
    /\ UNCHANGED <<chatVars, frameIngest, retrievalVars, embedVars, builderVars, chunkerVars,
                   quoteVars, evalVars>>

\* GET /api/replay: list_runs with its default limit.
ReadListRuns ==
    /\ \E listed \in ListRuns(durable.runs, DefaultLimit) :
          lastRead' = [op |-> "list_runs", run_id |-> 0, result |-> listed]
    /\ UNCHANGED <<qa_runs, qa_contexts, qa_answers, nextCtxId, pending, durable, query, oplog,
                   deletions>>
    /\ UNCHANGED <<chatVars, frameIngest, retrievalVars, embedVars, builderVars, chunkerVars,
                   quoteVars, evalVars>>

NextQuery ==
    \/ QueryRetrieve
    \/ QuerySynthesis
    \/ QueryCancel
    \/ QueryFinalize
    \/ ReadReplay
    \/ ReadListRuns
    \/ ReingestDocument
    \/ ReingestCommit
    \/ LexRemove
    \/ LexAdd
    \/ Interrupt
    \/ DeleteChunkRows

SpecQuery == InitStore /\ [][NextQuery]_vars

\* ---------------------------------------------------------------- query pipeline claims
RunOrder == <<"retrieval", "create_run", "write_contexts", "write_answer", "finalize_run">>
IsPrefix(a, b) == Len(a) <= Len(b) /\ a = SubSeq(b, 1, Len(a))
Queries == 1 .. Len(oplog)
Finalized(n) == n \in Queries /\ Len(oplog[n]) = Len(RunOrder)

\* C16: the operations made for the run of each query are a prefix of:
\* retrieval, create_run, write_contexts, write_answer, finalize_run; a run has
\* an answer only after its contexts were written, and a latency only after
\* finalize_run, which nothing follows.
C16_StoreOperationsInOrder ==
    \A n \in Queries :
        /\ IsPrefix(oplog[n], RunOrder)
        /\ n \in DOMAIN durable.answers => Len(oplog[n]) >= 4
        /\ (n \in DOMAIN durable.runs /\ durable.runs[n].latency_ms # NoLatency) =>
              oplog[n] = RunOrder

C16_Witness ==
    /\ query.phase = "done"
    /\ oplog[query.run_id] = RunOrder
    /\ ContextsOf(durable.contexts, query.run_id) # {}
    /\ query.run_id \in DOMAIN durable.answers

\* C17: a replay of a finalized run finds it, returns the stored question and
\* latency and one snippet for each context whose chunk exists, in ascending
\* rank; a context with a null link, or whose chunk is gone, gives no snippet
\* and does not hide the run.
C17_ReplayOfFinalizedRun ==
    (lastRead.op = "replay" /\ Finalized(lastRead.run_id)) =>
        LET rid == lastRead.run_id
            rec == lastRead.result
            rows == { c \in durable.contexts :
                        c.run_id = rid /\ c.chunk_id \in { ch.id : ch \in chunks } }
        IN  /\ rec.found
            /\ rec.question = durable.runs[rid].question
            /\ rec.question \in Questions
            /\ rec.latency_ms = durable.runs[rid].latency_ms
            /\ rec.latency_ms \in Latencies
            /\ Len(rec.snippets) = Cardinality(rows)
            /\ \A c \in rows :
                  rec.snippets[1 + Cardinality({ d \in rows : d.rank < c.rank })].chunk_id
                      = c.chunk_id

C17_Witness ==
    /\ lastRead.op = "replay"
    /\ Finalized(lastRead.run_id)
    /\ lastRead.result.found
    /\ \E c \in durable.contexts :
          c.run_id = lastRead.run_id /\ c.chunk_id = NullChunk /\ c.rank = 1
    /\ Len(lastRead.result.snippets) = 1

MaxAttempts == 3

\* The items of a daemon response. A positive number i is the vector the
\* daemon computed for inputs[i]; the others are an item that is no vector, a
\* vector that belongs to none of the inputs, a vector of a wrong dimension.
Malformed == 0
Surplus == -1
WrongDim == -2

\* self.batch_size = max(1, batch_size)
BatchSize(b) == IF b < 1 THEN 1 ELSE b

\* inputs[offset : offset + self.batch_size]
Batch(xs, off, size) == SubSeq(xs, off + 1, Min(off + size, Len(xs)))

\* range(0, len(inputs), self.batch_size)
Offsets(n, size) == { off \in 0 .. n : off < n /\ off % size = 0 }

\* What the daemon answers for the batch of n texts at offset off: a failure
\* of the transport, a body with none of the known keys, a body that is no
\* JSON object (data.get raises AttributeError), or a list of items
\* under "embeddings", "embedding" (one vector) or "data". The item at place
\* k answers the k-th text of the batch; a list may be one short or one long.
ItemLists(off, n) ==
    { l \in UNION { [1 .. m -> (off + 1 .. off + n) \cup {Malformed, Surplus, WrongDim}] :
                        m \in { x \in {n - 1, n, n + 1} : x >= 0 } } :
        \A k \in DOMAIN l :
            IF k <= n THEN l[k] \in {off + k, Malformed, WrongDim} ELSE l[k] = Surplus }

DaemonResponses(off, n) ==
    { [format |-> f, items |-> <<>>] : f \in {"transport_error", "unknown", "not_object"} }
    \cup { [format |-> f, items |-> l] : f \in {"embeddings", "data"}, l \in ItemLists(off, n) }
    \cup { [format |-> "embedding", items |-> <<v>>] : v \in {off + 1, WrongDim} }

\* The "data" branch: an item that is neither a list nor a dict with an
\* "embedding" list is passed over.
Collected(items) == SelectSeq(items, LAMBDA x : x # Malformed)

\* vectors.extend(...)
Extend(acc, vs) == acc \o vs

EmbedError == [err |-> "EmbeddingServiceError", vectors |-> <<>>]

\* One attempt of _embed_batch on a batch of n texts.
EmbedBatchOnce(n, resp) ==
    LET raw == IF resp.format = "data" THEN Collected(resp.items) ELSE resp.items
    IN  IF resp.format = "not_object" THEN [err |-> "AttributeError", vectors |-> <<>>]
        ELSE IF resp.format \in {"transport_error", "unknown"} THEN EmbedError
        ELSE IF resp.format = "data" /\ raw = <<>> THEN EmbedError
        ELSE IF \E k \in DOMAIN raw : raw[k] \in {Malformed, WrongDim} THEN EmbedError
        ELSE IF Len(raw) # n THEN EmbedError
        ELSE [err |-> "", vectors |-> raw]

\* @retry(retry=retry_if_exception_type(EmbeddingServiceError),
\* stop=stop_after_attempt(3), reraise=True) after an attempt that raised err,
\* made attempts in all.
RetryDecision(err, made) ==
    IF err # "EmbeddingServiceError" THEN "propagate"
    ELSE IF made >= MaxAttempts THEN "reraise"
    ELSE "retry"

InitEmbed ==
    /\ batch_size \in { BatchSize(b) : b \in 0 .. MaxBatch }
    /\ inputs = <<>> /\ offset = 0 /\ attempts = 0 /\ vectors = <<>> /\ epos = "idle"
    /\ eraised = "" /\ requests = <<>>
    /\ IngestIdleChat
    /\ RetrievalIdle
    /\ StoreIdle
    /\ BuilderIdle /\ ChunkerIdle /\ QuoteIdle /\ EvalIdle

\* embed_texts(texts) up to its first request.
EmbedTexts ==
    /\ epos = "idle"
    /\ \E n \in 0 .. MaxTexts :
          /\ inputs' = [i \in 1 .. n |-> i]
          /\ epos' = IF n = 0 THEN "returned" ELSE "running"
    /\ offset' = 0
    /\ attempts' = 0
    /\ vectors' = <<>>
    /\ eraised' = ""
    /\ requests' = <<>>
    /\ UNCHANGED batch_size
    /\ UNCHANGED <<chatVars, ingestVars, retrievalVars, storeVars, builderVars, chunkerVars,
                   quoteVars, evalVars>>

\* One request of _embed_batch for the batch at offset, and what follows it:
\* another attempt, the next batch, the return or the raise (with which the
\* list of the vectors collected is lost).
EmbedBatchAttempt ==
    /\ epos = "running"
    /\ offset \in Offsets(Len(inputs), batch_size)
    /\ LET batch == Batch(inputs, offset, batch_size)
       IN  \E resp \in DaemonResponses(offset, Len(batch)) :
              LET out == EmbedBatchOnce(Len(batch), resp)
                  made == attempts + 1
              IN  /\ requests' = Append(requests, [offset |-> offset, attempt |-> made,
                                                    err |-> out.err, vectors |-> out.vectors])
                  /\ IF out.err = ""
                     THEN /\ vectors' = Extend(vectors, out.vectors)
                          /\ attempts' = 0
                          /\ offset' = offset + batch_size
                          /\ epos' = IF offset + batch_size \in Offsets(Len(inputs), batch_size)
                                     THEN "running" ELSE "returned"
                          /\ UNCHANGED eraised
                     ELSE IF RetryDecision(out.err, made) = "retry"
                     THEN /\ attempts' = made
                          /\ UNCHANGED <<vectors, offset, epos, eraised>>
                     ELSE /\ attempts' = made
                          /\ epos' = "raised"
                          /\ eraised' = out.err
                          /\ vectors' = <<>>
                          /\ UNCHANGED offset
    /\ UNCHANGED <<batch_size, inputs>>
    /\ UNCHANGED <<chatVars, ingestVars, retrievalVars, storeVars, builderVars, chunkerVars,
                   quoteVars, evalVars>>

NextEmbed == EmbedTexts \/ EmbedBatchAttempt

SpecEmbed == InitEmbed /\ [][NextEmbed]_vars

\* ---------------------------------------------------------------- embedding claims
\* C20: when embed_texts has returned, it returned one vector for each input
\* and the i-th of them is the vector the daemon computed for inputs[i].
C20_OrderPreservedAcrossBatches ==
    epos = "returned" =>
        /\ Len(vectors) = Len(inputs)
        /\ \A i \in DOMAIN inputs : vectors[i] = inputs[i]

RequestsAt(off) == { k \in DOMAIN requests : requests[k].offset = off }
LastRequest == requests[Len(requests)]

\* C21: no batch is requested more than 3 times; a request that fails
\* (transport, payload shape, non-numeric, dimension, count) is followed by
\* another for the same batch unless it was the third, after which
\* embed_texts raises EmbeddingServiceError, returns no vector and sends
\* nothing more; the vectors of a request that succeeds, whichever attempt it
\* was, go to the places of its batch.
C21_BatchAttemptedAtMostThreeTimes ==
    /\ [](/\ \A off \in 0 .. Len(inputs) : Cardinality(RequestsAt(off)) <= 3
          /\ \A k \in DOMAIN requests :
                /\ requests[k].attempt \in 1 .. 3
                /\ requests[k].attempt > 1 =>
                      /\ requests[k - 1].offset = requests[k].offset
                      /\ requests[k - 1].attempt = requests[k].attempt - 1
                      /\ requests[k - 1].err # ""
                /\ (requests[k].err = "" /\ epos # "raised") =>
                      SubSeq(vectors, requests[k].offset + 1,
                             requests[k].offset + Len(requests[k].vectors))
                          = requests[k].vectors
                /\ (requests[k].err # "" /\ requests[k].attempt < 3) =>
                      (k < Len(requests) \/ epos = "running")
          /\ epos = "raised" =>
                /\ eraised = "EmbeddingServiceError"
                /\ LastRequest.attempt = 3
                /\ LastRequest.err = "EmbeddingServiceError"
                /\ vectors = <<>>)
    /\ [][epos = "raised" => requests' = requests]_vars

(***************************************************************************)
(* ContextBuilder (services/retrieval/context_builder.py).                 *)
(*                                                                         *)
(* A path is the sequence of its components; a string built by an f-string *)
(* is the sequence of its pieces.  Scores are in thousandths, the          *)
(* precision "%.3f" prints.                                                *)
(***************************************************************************)
\* Python's None in an Optional[int] / Optional[float] field.
NoneValue == -1

\* Python truthiness of an Optional[int]: None and 0 are falsy.
Truthy(x) == x # NoneValue /\ x # 0

\* Path(path).name
PathName(path) == IF path = <<>> THEN "" ELSE path[Len(path)]

\* _format_citation with the page tested before the line range.
FormatCitationPageFirst(result) ==
    LET fragment == IF Truthy(result.page_no)
                        THEN <<"p.", result.page_no>>
                    ELSE IF Truthy(result.start_line) /\ Truthy(result.end_line)
                        THEN <<"L", result.start_line, "-L", result.end_line>>
                    ELSE <<>>
    IN  IF fragment # <<>> THEN <<PathName(result.path), ":">> \o fragment
                           ELSE <<PathName(result.path)>>

\* ContextBuilder._format_citation
FormatCitation(result) ==
    LET fragment == IF Truthy(result.start_line) /\ Truthy(result.end_line)
                        THEN <<"L", result.start_line, "-L", result.end_line>>
                    ELSE IF Truthy(result.page_no)
                        THEN <<"p.", result.page_no>>
                    ELSE <<>>
    IN  IF fragment # <<>> THEN <<PathName(result.path), ":">> \o fragment
                           ELSE <<PathName(result.path)>>

\* ", ".join(parts)
JoinParts(parts) ==
    [i \in 1..(IF parts = <<>> THEN 0 ELSE 2 * Len(parts) - 1) |->
        IF i % 2 = 1 THEN parts[(i + 1) \div 2] ELSE ", "]

\* ContextBuilder._compose_rationale
ComposeRationale(result) ==
    LET p1 == IF result.score_bm25 # NoneValue
                  THEN <<(<<"BM25=", result.score_bm25>>)>> ELSE <<>>
        p2 == IF result.score_embed # NoneValue
                  THEN <<(<<"Embed=", result.score_embed>>)>> ELSE <<>>
        p3 == IF result.distance # NoneValue /\ result.score_embed = NoneValue
                  THEN <<(<<"Dist=", result.distance>>)>> ELSE <<>>
        parts == p1 \o p2 \o p3
    IN  IF parts # <<>> THEN JoinParts(parts) ELSE <<"Relevant snippet">>

\* The ContextSnippet build() appends for one result.
Snippet(result) ==
    [document_id |-> result.document_id,
     chunk_id    |-> result.chunk_id,
     citation    |-> FormatCitation(result),
     rationale   |-> ComposeRationale(result),
     score_bm25  |-> result.score_bm25,
     score_embed |-> result.score_embed]

\* ContextBuilder.build: results whose normalized content is empty are skipped.
RECURSIVE Build(_)
Build(results) ==
    IF results = <<>> THEN <<>>
    ELSE LET rest == Build(Tail(results))
         IN  IF Head(results).blank THEN rest ELSE <<Snippet(Head(results))>> \o rest

\* The values a locator field is drawn from: None, 0 and two line / page numbers.
Locators == {NoneValue, 0, 3, 7}
ScoreValues == {NoneValue, 0, 1500}
BuilderPaths == {<<"a.md">>, <<"notes", "b.pdf">>}

\* The RetrievalResult objects build() is called with.
BuilderResults ==
    [chunk_id : {1}, document_id : {1}, path : BuilderPaths, blank : BOOLEAN,
     start_line : Locators, end_line : Locators, page_no : Locators,
     score_bm25 : ScoreValues, score_embed : ScoreValues, distance : {NoneValue, 250}]

InitBuilder ==
    /\ \E r \in BuilderResults : given = <<r>>
    /\ snippets = <<>>
    /\ ChatIdle
    /\ IngestIdleChat
    /\ RetrievalIdle /\ StoreIdle /\ EmbedIdle
    /\ ChunkerIdle /\ QuoteIdle /\ EvalIdle

\* build(results)
BuildContext ==
    /\ snippets = <<>>
    /\ snippets' = Build(given)
    /\ UNCHANGED given
    /\ UNCHANGED <<chatVars, ingestVars, retrievalVars, storeVars, embedVars, chunkerVars,
                   quoteVars, evalVars>>

NextBuilder == BuildContext

SpecBuilder == InitBuilder /\ [][NextBuilder]_vars

\* A locator is present when it holds a number (line and page numbers start at 1;
\* the BM25 index stores 0 for a chunk without lines).
Present(x) == x \notin {NoneValue, 0}

\* C22: the citation of every snippet is <basename>:L<start>-L<end> when both lines are
\* present, <basename>:p.<page> when the page is present and the line range is not, and
\* the bare basename otherwise.
C22_CitationHasOneOfThreeForms ==
    snippets # <<>> =>
        LET r == given[1]
            c == snippets[1].citation
            base == r.path[Len(r.path)]
        IN  /\ (Present(r.start_line) /\ Present(r.end_line))
                => c = <<base, ":", "L", r.start_line, "-L", r.end_line>>
            /\ (~(Present(r.start_line) /\ Present(r.end_line)) /\ Present(r.page_no))
                => c = <<base, ":", "p.", r.page_no>>
            /\ (~(Present(r.start_line) /\ Present(r.end_line)) /\ ~Present(r.page_no))
                => c = <<base>>

\* A page citation was produced for a result with a page and no line range.
C22_Witness ==
    /\ snippets # <<>>
    /\ given[1].start_line = NoneValue /\ given[1].end_line = NoneValue
    /\ given[1].page_no = 7
    /\ snippets[1].citation = <<"b.pdf", ":", "p.", 7>>

(***************************************************************************)
(* The chunking loops: MarkdownIngestService._generate_chunks over one     *)
(* section that starts at line 1, PDFIngestService._chunk_page and         *)
(* EmailIngestService._chunk_text over the paragraphs of one page / body.  *)
(* A line or paragraph is its token count (_count_tokens: the number of    *)
(* whitespace-separated words; 0 for a blank line).  cursor and the        *)
(* window bounds are 0-based as in the code: the window is                 *)
(* units[cursor+1 .. end].                                                 *)
(***************************************************************************)
Chunkers == {"md", "pdf", "email"}

\* overlap_ratio in halves: 0, 0.5, 1.
OverlapHalves == {0, 1, 2}

\* max(1, int(max_tokens * overlap_ratio))
OverlapTokens(maxTok, halves) == Max(1, (maxTok * halves) \div 2)

\* The inner while loop: extends the window from end and returns where it stops.
RECURSIVE Accumulate(_, _, _, _, _, _)
Accumulate(kind, us, cur, end, token_sum, maxTok) ==
    LET more == IF kind = "pdf"
                    THEN end < Len(us) /\ (token_sum + us[end + 1] <= maxTok \/ end = cur)
                    ELSE end < Len(us) /\ token_sum < maxTok
    IN  IF more THEN Accumulate(kind, us, cur, end + 1, token_sum + us[end + 1], maxTok)
                ELSE [end |-> end, token_sum |-> token_sum]

\* _compute_overlap(tokens_segment, overlap_tokens), tokens_segment = us[lo+1 .. hi]
RECURSIVE ComputeOverlap(_, _, _, _, _, _)
ComputeOverlap(us, lo, hi, accumulated, lines, overlapTok) ==
    IF hi <= lo THEN lines
    ELSE IF accumulated + us[hi] >= overlapTok THEN lines + 1
    ELSE ComputeOverlap(us, lo, hi - 1, accumulated + us[hi], lines + 1, overlapTok)

\* Whether the window holds text: some line / paragraph of it is not blank.
HasText(us, lo, hi) == \E i \in (lo + 1)..hi : us[i] > 0

\* One iteration of the outer while loop at cursor cur: the chunk it emits (if any),
\* the cursor it leaves and whether it leaves the loop.
Iteration(kind, us, cur, maxTok, overlapTok) ==
    LET w == Accumulate(kind, us, cur, cur, 0, maxTok)
        text == HasText(us, cur, w.end)
        draft == [start_line  |-> IF kind = "md" THEN 1 + cur ELSE NoneValue,
                  end_line    |-> IF kind = "md" THEN 1 + w.end - 1 ELSE NoneValue,
                  token_count |-> w.token_sum]
        next == Max(cur + 1, w.end - ComputeOverlap(us, cur, w.end, 0, 0, overlapTok))
    IN  IF kind = "md" /\ ~text
            THEN [emit |-> FALSE, draft |-> draft, cursor |-> w.end,
                  done |-> ~(w.end < Len(us))]
        ELSE IF w.end >= Len(us)
            THEN [emit |-> text, draft |-> draft, cursor |-> cur, done |-> TRUE]
        ELSE [emit |-> text, draft |-> draft, cursor |-> next, done |-> ~(next < Len(us))]

\* The lines of a markdown section (at least one line; 0 = a blank line), the
\* paragraphs of a page (never blank, except that a page without text is the one
\* paragraph '' of 0 tokens) or of an email body (never blank, possibly none at all).
UnitLists(kind) ==
    IF kind = "md" THEN UNION {[1..n -> 0..MaxUnitTokens] : n \in 1..MaxUnits}
    ELSE IF kind = "pdf"
        THEN UNION {[1..n -> 1..MaxUnitTokens] : n \in 1..MaxUnits} \cup {<<0>>}
    ELSE UNION {[1..n -> 1..MaxUnitTokens] : n \in 0..MaxUnits}

MaxIterations == MaxUnits + 1

InitChunker ==
    /\ chunker \in Chunkers
    /\ max_tokens \in 0..MaxTokens
    /\ \E h \in OverlapHalves : overlap_tokens = OverlapTokens(max_tokens, h)
    /\ units \in UnitLists(chunker)
    /\ cursor = 0 /\ drafts = <<>> /\ iterations = 0 /\ kpos = "idle"
    /\ ChatIdle
    /\ IngestIdleChat
    /\ RetrievalIdle /\ StoreIdle /\ EmbedIdle
    /\ BuilderIdle /\ QuoteIdle /\ EvalIdle

\* The chunker is called: cursor = 0 and the loop is entered.
GenerateChunks ==
    /\ kpos = "idle"
    /\ kpos' = (IF cursor < Len(units) THEN "running" ELSE "done")
    /\ UNCHANGED <<chunker, max_tokens, overlap_tokens, units, cursor, drafts, iterations>>
    /\ UNCHANGED <<chatVars, ingestVars, retrievalVars, storeVars, embedVars, builderVars,
                   quoteVars, evalVars>>

\* One iteration of `while cursor < total`.
ChunkStep ==
    /\ kpos = "running"
    /\ iterations < MaxIterations
    /\ LET it == Iteration(chunker, units, cursor, max_tokens, overlap_tokens)
       IN  /\ drafts' = IF it.emit THEN Append(drafts, it.draft) ELSE drafts
           /\ cursor' = it.cursor
           /\ kpos' = IF it.done THEN "done" ELSE "running"
    /\ iterations' = iterations + 1
    /\ UNCHANGED <<chunker, max_tokens, overlap_tokens, units>>
    /\ UNCHANGED <<chatVars, ingestVars, retrievalVars, storeVars, embedVars, builderVars,
                   quoteVars, evalVars>>

NextChunker == GenerateChunks \/ ChunkStep

SpecChunker == InitChunker /\ [][NextChunker]_vars

\* The loop runs on: an iteration that can be executed is executed.
SpecChunkerFair == SpecChunker /\ WF_vars(NextChunker)

\* C23: chunking '# Title', '', 'alpha beta gamma delta' (token counts 2, 0, 4) with
\* max_tokens = 2 and overlap_ratio = 0.5 (overlap_tokens = 1) yields at least 2 chunks,
\* each with token_count = 2 (the ordinals are the positions in the list).
C23_TitleBodyChunksOfTwoTokens ==
    (/\ kpos = "done" /\ chunker = "md" /\ units = <<2, 0, 4>>
     /\ max_tokens = 2 /\ overlap_tokens = 1)
        => /\ Len(drafts) >= 2
           /\ \A i \in 1..Len(drafts) : drafts[i].token_count = 2

\* C26: every iteration of a chunking loop that stays in the loop moves the cursor
\* forward by at least 1, and the loop ends, for the markdown, PDF and email chunkers and
\* every max_tokens and overlap.
C26_ChunkingLoopAdvances ==
    /\ [][(iterations' = iterations + 1 /\ kpos' = "running") => cursor' >= cursor + 1]_vars
    /\ (kpos = "running") ~> (kpos = "done")

\* The same for a max_tokens of at least 1.
C26_AdvancesForPositiveMaxTokens ==
    /\ [][(max_tokens >= 1 /\ iterations' = iterations + 1 /\ kpos' = "running")
              => cursor' >= cursor + 1]_vars
    /\ (max_tokens >= 1 /\ kpos = "running") ~> (kpos = "done")

(***************************************************************************)
(* EmailIngestService._strip_quotes (services/ingest/email.py).            *)
(*                                                                         *)
(* A line of the body is what the function tests of it: "blank" (empty     *)
(* once stripped), "quote" (begins with '>' once stripped), "header"       *)
(* (matches ^On .*wrote:$ once stripped) or "text" (anything else).  The   *)
(* result is the list of the positions of the lines kept.                  *)
(***************************************************************************)
LineKinds == {"text", "blank", "quote", "header"}

Bodies == UNION {[1..n -> LineKinds] : n \in 1..MaxLines}

\* The for loop of _strip_quotes from line i on, with the kept positions so far.
RECURSIVE StripFrom(_, _, _, _)
StripFrom(lines, i, skip_block, kept) ==
    IF i > Len(lines) THEN kept
    ELSE LET skip == skip_block \/ lines[i] \in {"quote", "header"}
         IN  IF skip /\ lines[i] = "blank" THEN StripFrom(lines, i + 1, FALSE, kept)
             ELSE IF skip THEN StripFrom(lines, i + 1, TRUE, kept)
             ELSE StripFrom(lines, i + 1, FALSE, Append(kept, i))

\* "\n".join(cleaned).strip(): the blank lines at both ends of the result go.
RECURSIVE StripEnds(_, _)
StripEnds(lines, kept) ==
    IF kept = <<>> THEN kept
    ELSE IF lines[kept[1]] = "blank" THEN StripEnds(lines, Tail(kept))
    ELSE IF lines[kept[Len(kept)]] = "blank"
        THEN StripEnds(lines, SubSeq(kept, 1, Len(kept) - 1))
    ELSE kept

\* _strip_quotes(body)
StripQuotes(lines) == StripEnds(lines, StripFrom(lines, 1, FALSE, <<>>))

InitQuote ==
    /\ body \in Bodies
    /\ cleaned = <<>> /\ qpos = "idle"
    /\ ChatIdle
    /\ IngestIdleChat
    /\ RetrievalIdle /\ StoreIdle /\ EmbedIdle
    /\ BuilderIdle /\ ChunkerIdle /\ EvalIdle

\* cleaned_body = self._strip_quotes(body)
StripBody ==
    /\ qpos = "idle"
    /\ cleaned' = StripQuotes(body)
    /\ qpos' = "done"
    /\ UNCHANGED body
    /\ UNCHANGED <<chatVars, ingestVars, retrievalVars, storeVars, embedVars, builderVars,
                   chunkerVars, evalVars>>

NextQuote == StripBody

SpecQuote == InitQuote /\ [][NextQuote]_vars

\* Line i lies in the block of an 'On ... wrote:' line: from that line up to the next
\* blank line.
InWroteBlock(i) ==
    \E j \in 1..i : body[j] = "header" /\ \A k \in j..i : body[k] # "blank"

KeptLines == {cleaned[n] : n \in 1..Len(cleaned)}

\* C24: the lines beginning with '>' and the blocks after an 'On ... wrote:' line are
\* dropped; every other line that is not blank is kept, in its original order.
C24_OnlyQuotedLinesDropped ==
    qpos = "done" =>
        /\ \A i \in 1..Len(body) :
              (body[i] = "quote" \/ InWroteBlock(i)) => i \notin KeptLines
        /\ \A i \in 1..Len(body) :
              (body[i] = "text" /\ ~InWroteBlock(i)) => i \in KeptLines
        /\ \A m, n \in 1..Len(cleaned) : m < n => cleaned[m] < cleaned[n]

(***************************************************************************)
(* EvaluationRunner._evaluate_example (services/evals/scorer.py).          *)
(*                                                                         *)
(* A source of the answer is its id; "" stands for an item without a       *)
(* usable id (a null item, a missing or empty "id").  An issue is the      *)
(* sequence of the pieces of its f-string.                                 *)
(***************************************************************************)
SourceIds == {"", "doc1", "doc2"}

SourceLists == UNION {[1..n -> SourceIds] : n \in 0..MaxSources}

\* The /api/chat payloads scored: answer.abstain, answer.sources, latency_ms.
Payloads == [abstain : BOOLEAN, sources : SourceLists, latency_ms : {0, 50}]

\* ExampleExpectations.from_dict of a dataset item.
Expectations ==
    [min_sources : 0..MaxMinSources, require_abstain : {"None", "True", "False"},
     required_source_ids : {{}, {"doc1"}}, max_latency_ms : {NoneValue, 10}]

\* source_count with every listed item counted.
SourceCountListed(sources) == Len(sources)

\* source_count = len({str(item.get("id")) for item in sources if item and item.get("id")})
SourceCount(sources) == Cardinality({sources[i] : i \in 1..Len(sources)} \ {""})

\* _evaluate_example(payload, expectations)
EvaluateExample(pl, ex) ==
    LET source_ids == {pl.sources[i] : i \in 1..Len(pl.sources)} \ {""}
        source_count == SourceCount(pl.sources)
        i1 == IF ex.require_abstain # "None"
                 /\ pl.abstain # (ex.require_abstain = "True")
                  THEN <<(<<"Expected model to ",
                           IF ex.require_abstain = "True" THEN "abstain"
                                                          ELSE "provide an answer",
                           ", received abstain=", pl.abstain, ".">>)>>
                  ELSE <<>>
        i2 == IF ~pl.abstain /\ source_count < ex.min_sources
                  THEN <<(<<"Insufficient citations: expected >=", ex.min_sources,
                           ", found ", source_count, ".">>)>>
                  ELSE <<>>
        i3 == IF ~pl.abstain /\ (ex.required_source_ids \ source_ids) # {}
                  THEN <<(<<"Missing required citations: ",
                           ex.required_source_ids \ source_ids, ".">>)>>
                  ELSE <<>>
        i4 == IF ex.max_latency_ms # NoneValue /\ pl.latency_ms > ex.max_latency_ms
                  THEN <<(<<"Latency ", pl.latency_ms, "ms exceeds threshold of ",
                           ex.max_latency_ms, "ms.">>)>>
                  ELSE <<>>
        issues == i1 \o i2 \o i3 \o i4
    IN  [status       |-> IF issues = <<>> THEN "pass" ELSE "fail",
         latency_ms   |-> pl.latency_ms,
         source_count |-> source_count,
         issues       |-> issues,
         abstain      |-> pl.abstain]

InitEval ==
    /\ payload \in Payloads
    /\ expectations \in Expectations
    /\ evaluation = NoEvaluation
    /\ ChatIdle
    /\ IngestIdleChat
    /\ RetrievalIdle /\ StoreIdle /\ EmbedIdle
    /\ BuilderIdle /\ ChunkerIdle /\ QuoteIdle

\* evaluation = self._evaluate_example(payload, expectations)
Evaluate ==
    /\ evaluation = NoEvaluation
    /\ evaluation' = EvaluateExample(payload, expectations)
    /\ UNCHANGED <<payload, expectations>>
    /\ UNCHANGED <<chatVars, ingestVars, retrievalVars, storeVars, embedVars, builderVars,
                   chunkerVars, quoteVars>>

NextEval == Evaluate

SpecEval == InitEval /\ [][NextEval]_vars

\* The dataset item sets min_sources and nothing else, and the response does not abstain.
OnlyMinSources ==
    /\ evaluation.status # "none"
    /\ ~payload.abstain
    /\ expectations.require_abstain = "None"
    /\ expectations.required_source_ids = {}
    /\ expectations.max_latency_ms = NoneValue

\* An issue string containing 'citations' that reports too few of them.
CitationsIssue(issue) == issue[1] = "Insufficient citations: expected >="

\* C25 as stated: with min_sources = k and a non-abstaining response, the example fails
\* with a 'citations' issue when the answer lists fewer than k sources and passes when it
\* lists k or more.
C25_FailsBelowMinSources ==
    OnlyMinSources =>
        IF Len(payload.sources) < expectations.min_sources
            THEN /\ evaluation.status = "fail"
                 /\ \E i \in 1..Len(evaluation.issues) : CitationsIssue(evaluation.issues[i])
            ELSE evaluation.status = "pass"

\* The distinct ids among the sources listed, an item without an id left out.
DistinctSources == {payload.sources[i] : i \in 1..Len(payload.sources)} \ {""}

\* C25 amended: the sources counted are the distinct source ids the answer lists.
C25_FailsBelowMinDistinctSources ==
    OnlyMinSources =>
        IF Cardinality(DistinctSources) < expectations.min_sources
            THEN /\ evaluation.status = "fail"
                 /\ \E i \in 1..Len(evaluation.issues) : CitationsIssue(evaluation.issues[i])
            ELSE evaluation.status = "pass"

\* k = 2: an answer with one source has failed for its citations.
C25_Witness ==
    /\ OnlyMinSources
    /\ expectations.min_sources = 2
    /\ payload.sources = <<"doc1">>
    /\ evaluation.status = "fail"
    /\ evaluation.issues = <<(<<"Insufficient citations: expected >=", 2, ", found ", 1, ".">>)>>

(***************************************************************************)
(* ChatService: schema defaults (SpecChat).                                *)
(***************************************************************************)
\* The response just processed is a JSON object.
ObjectResponse ==
    /\ rpc >= 1 /\ lastResp.status = "ok"
    /\ lastResp.content.json /\ lastResp.content.val.t = "object"

\* The members of the object just received, each omitted property for which the schema
\* declares a default set to that default (an empty array).
Completed ==
    [key \in Keys |->
        IF lastResp.content.val.m[key] = Absent /\ schema.props[key].default
            THEN JArr("empty", {})
            ELSE lastResp.content.val.m[key]]

OmitsDefaulted ==
    \E key \in Keys : lastResp.content.val.m[key] = Absent /\ schema.props[key].default

\* C27: on every attempt, a response that is a JSON object is completed with the schema
\* defaults of the properties it omits and then validated: when the completed object is
\* valid the attempt is not retried and the value returned is the completed object, in
\* which every property the response carried has the value the response gave it.
C27_DefaultsAppliedBeforeValidation ==
    (ObjectResponse /\ SchemaValid(schema, Object(Completed))) =>
        /\ gpc # "running"
        /\ raised.type # "ChatServiceValidationError"
        /\ last_error.attempt # rpc
        /\ gpc = "returned" =>
              /\ answer = Object(Completed)
              /\ \A key \in Keys :
                    lastResp.content.val.m[key] # Absent
                        => answer.m[key] = lastResp.content.val.m[key]

\* A second attempt whose response omits bullets, conflicts and sources was accepted with
\* the three defaults filled in.
C27_Witness ==
    /\ ObjectResponse /\ OmitsDefaulted
    /\ rpc = 2 /\ gpc = "returned"
    /\ \A key \in {"bullets", "conflicts", "sources"} :
          lastResp.content.val.m[key] = Absent /\ answer.m[key] = JArr("empty", {})
    /\ answer.m["answer"] = lastResp.content.val.m["answer"]

(***************************************************************************)
(* Serving a question over an ingested corpus: the BM25 search reads the   *)
(* index, the vector search reads the chunks table, RetrievalService       *)
(* .retrieve merges them, builds the snippets and writes the contexts, and *)
(* replay rebuilds the snippets from the tables.  Meanwhile a changed file  *)
(* is ingested again, step by step: its transaction, remove_chunks,        *)
(* add_documents, each index call ending as the index lets it.             *)
(*                                                                         *)
(* A chunk's locators are told by the service that made it and its id:     *)
(* lines 2*id-1 .. 2*id for markdown, page id for a PDF, none for an       *)
(* email.  The path of a document is <<"knowledge", p>>.                   *)
(***************************************************************************)
\* Chunk.start_line, Chunk.end_line, Chunk.page_no as _ingest_file sets them.
StartLineOf(svc, id) == IF svc = "md" THEN 2 * id - 1 ELSE NoneValue
EndLineOf(svc, id) == IF svc = "md" THEN 2 * id ELSE NoneValue
PageNoOf(svc, id) == IF svc = "pdf" THEN id ELSE NoneValue

\* int(payload.get("start_line") or 0)
IntOrZero(x) == IF x = NoneValue THEN 0 ELSE x

\* Document.path of the document with this id.
DocPath(docs, docId) ==
    LET p == CHOOSE q \in DOMAIN docs : docs[q].id = docId
    IN  <<"knowledge", p>>

\* The scores of a hit, in thousandths: float(score) of tantivy; the cosine distance and
\* 1.0 - distance.
BM25Score == 1500
Distance == 200
ScoreEmbed == 1000 - Distance

\* A hit of BM25IndexService.search: the fields add_documents stored for the chunk (no
\* page_no among them) and the score.
BM25Hit(svc, docs, e) ==
    [chunk_id |-> e.chunk_id, document_id |-> e.document_id,
     path |-> DocPath(docs, e.document_id), blank |-> FALSE,
     start_line |-> IntOrZero(StartLineOf(svc, e.chunk_id)),
     end_line |-> IntOrZero(EndLineOf(svc, e.chunk_id)),
     page_no |-> NoneValue,
     score_bm25 |-> BM25Score, score_embed |-> NoneValue, distance |-> NoneValue]

\* A hit of VectorIndexService.search: the columns of the chunk and its document.
VectorHit(svc, docs, ch) ==
    [chunk_id |-> ch.id, document_id |-> ch.document_id,
     path |-> DocPath(docs, ch.document_id), blank |-> FALSE,
     start_line |-> StartLineOf(svc, ch.id),
     end_line |-> EndLineOf(svc, ch.id),
     page_no |-> PageNoOf(svc, ch.id),
     score_bm25 |-> NoneValue, score_embed |-> ScoreEmbed, distance |-> Distance]

\* The lists a search may return over a set of rows: at most MaxServeHits, none twice.
Rankings(rows) ==
    { l \in UNION { [1 .. k -> rows] : k \in 0 .. MaxServeHits } :
        \A i \in DOMAIN l : \A j \in DOMAIN l : l[i] = l[j] => i = j }

\* RetrievalResult.rationale = None
NoRationale == <<"None">>

\* ensure_result(chunk_id, base_payload): the RetrievalResult of a first payload.
NewResult(hit) ==
    [chunk_id |-> hit.chunk_id, document_id |-> hit.document_id, path |-> hit.path,
     blank |-> hit.blank, start_line |-> hit.start_line, end_line |-> hit.end_line,
     page_no |-> hit.page_no, score_bm25 |-> NoneValue, score_embed |-> NoneValue,
     distance |-> NoneValue, rationale |-> NoRationale]

\* One of the two loops over the hits: ensure_result, then the scores of that search.
RECURSIVE EnsureResults(_, _, _)
EnsureResults(merged, hits, search) ==
    IF hits = <<>> THEN merged
    ELSE LET hit == Head(hits)
             base == IF hit.chunk_id \in DOMAIN merged THEN merged[hit.chunk_id]
                     ELSE NewResult(hit)
             scored == IF search = "bm25"
                           THEN [base EXCEPT !.score_bm25 = hit.score_bm25]
                           ELSE [base EXCEPT !.score_embed = hit.score_embed,
                                             !.distance = hit.distance]
         IN  EnsureResults(IF ValidHit(hit) THEN Put(merged, hit.chunk_id, scored)
                           ELSE merged,
                           Tail(hits), search)

\* merged after both loops, the BM25 hits first.
MergedResults(bm25, vec) ==
    EnsureResults(EnsureResults(<<>>, bm25, "bm25"), vec, "vector")

\* RetrievalOrchestrator.retrieve: the selection over the merged results.
RetrieveResults(bm25, vec, cap, limit) ==
    Walk(OrderedIds(bm25, vec), MergedResults(bm25, vec), 1, <<>>, <<>>, cap, limit)

\* `x or ""` of an Optional[str]
OrEmpty(text) == IF text = NoRationale THEN <<>> ELSE text

\* write_contexts with every column it sets.
WriteContextRows(ctxs, seq, rid, contexts) ==
    ctxs \cup { [id |-> seq + i - 1, run_id |-> rid, chunk_id |-> contexts[i].chunk_id,
                 rank |-> i, pos |-> i,
                 score_bm25 |-> contexts[i].score_bm25,
                 score_embed |-> contexts[i].score_embed,
                 rationale |-> OrEmpty(contexts[i].rationale)] : i \in DOMAIN contexts }

\* RetrievalStore._build_citation(chunk, document)
BuildCitation(svc, docs, ch) ==
    LET name == PathName(DocPath(docs, ch.document_id))
        start_line == StartLineOf(svc, ch.id)
        end_line == EndLineOf(svc, ch.id)
        page_no == PageNoOf(svc, ch.id)
    IN  IF Truthy(start_line) /\ Truthy(end_line)
            THEN <<name, ":", "L", start_line, "-L", end_line>>
        ELSE IF Truthy(page_no) THEN <<name, ":", "p.", page_no>>
        ELSE <<name>>

\* The loop of replay over the joined rows: `if chunk is None: continue`, else a
\* ContextSnippet of the chunk and the stored context.
RECURSIVE ReplaySnippets(_, _, _, _)
ReplaySnippets(rows, chs, docs, svc) ==
    IF rows = <<>> THEN <<>>
    ELSE LET ctx == Head(rows)
             found == ChunkOf(chs, ctx)
         IN  (IF found = {} THEN <<>>
              ELSE LET ch == CHOOSE x \in found : TRUE
                   IN  << [document_id |-> ch.document_id, chunk_id |-> ch.id,
                           citation |-> BuildCitation(svc, docs, ch),
                           rationale |-> OrEmpty(ctx.rationale),
                           score_bm25 |-> ctx.score_bm25,
                           score_embed |-> ctx.score_embed] >>)
             \o ReplaySnippets(Tail(rows), chs, docs, svc)

ChunkIds(chs) == { ch.id : ch \in chs }

\* A database and an index into which two files were ingested by one service (two
\* chunks and one), no question asked yet.
InitServe ==
    /\ service \in {"md", "pdf", "email"}
    /\ mbox = {} /\ files = IngestedFiles
    /\ documents = [p \in Paths |-> DocRow(p, service, p, IngestedFiles[p], IngestedFiles[p], NoDoc)]
    /\ chunks = UNION { NewChunkRows(p, IF p = 1 THEN 1 ELSE 2 * p - 1,
                                     ChunkCount(IngestedFiles[p]),
                                     [i \in 1 .. ChunkCount(IngestedFiles[p]) |-> VectorDim],
                                     Sha256(IngestedFiles[p])) : p \in Paths }
    /\ lexical = { [chunk_id |-> ch.id, document_id |-> ch.document_id] : ch \in chunks }
    /\ nextDocId = NumFiles + 1
    /\ nextChunkId = 2 * NumFiles
    /\ run = NoRun /\ step = NoStep /\ edits = 0 /\ rebuilds = 0
    /\ final_limit = 12 /\ diversity_cap = 3 /\ question = "text" /\ embedQueryOK = TRUE
    /\ bm25_hits = <<>> /\ vector_hits = <<>> /\ selected = <<>> /\ rpos = "idle"
    /\ ChatIdle
    /\ StoreIdle /\ EmbedIdle
    /\ BuilderIdle /\ ChunkerIdle /\ QuoteIdle /\ EvalIdle

\* retrieve() through its BM25 search: embed_query has returned, and
\* bm25_service.search reads the index as it is now, outside any transaction.
ServeSearch ==
    /\ rpos = "idle"
    /\ \E lex \in Rankings(lexical) :
          bm25_hits' = [i \in DOMAIN lex |-> BM25Hit(service, documents, lex[i])]
    /\ rpos' = "searching"
    /\ UNCHANGED <<final_limit, diversity_cap, question, embedQueryOK, vector_hits, selected>>
    /\ UNCHANGED <<storeVars, builderVars>>
    /\ UNCHANGED <<chatVars, ingestVars, embedVars, chunkerVars, quoteVars, evalVars>>

\* RetrievalService.retrieve from the vector search to its return: the
\* vector search reads the chunks table as it is now, the orchestrator
\* selects, build makes the snippets, create_run flushes the run and
\* write_contexts adds the QAContext objects to the session, unflushed.
\* retrieve returns whatever the ids are.
ServeRetrieve ==
    /\ rpos = "searching"
    /\ \E vec \in Rankings(chunks) :
          LET vect == [i \in DOMAIN vec |-> VectorHit(service, documents, vec[i])]
              contexts == RetrieveResults(bm25_hits, vect, diversity_cap, final_limit)
          IN  /\ vector_hits' = vect
              /\ selected' = contexts
              /\ given' = contexts
              /\ snippets' = Build(contexts)
    /\ qa_runs' = CreateRun(qa_runs, 1, 1, LaterStart(qa_runs))
    /\ rpos' = "returned"
    /\ lastRead' = NoRead
    /\ UNCHANGED <<final_limit, diversity_cap, question, embedQueryOK, bm25_hits>>
    /\ UNCHANGED <<qa_contexts, qa_answers, nextCtxId, pending, durable, query, oplog, deletions>>
    /\ UNCHANGED <<chatVars, ingestVars, embedVars, chunkerVars, quoteVars, evalVars>>

\* The caller goes on with RetrievalService.finalize and the end of the
\* session's scope, which commits.  session.merge in write_answer flushes the session first:
\* the QAContext rows are inserted, and the foreign key of qa_contexts.chunk_id
\* refuses a row whose chunk is not in the chunks table now: IntegrityError,
\* and the scope rolls the run back.  Else write_answer, finalize_run, commit.
ServeFinalize ==
    /\ rpos = "returned"
    /\ query.phase = "idle"
    /\ \E json \in AnswerJsons :
          LET refused == \E i \in DOMAIN selected :
                            selected[i].chunk_id \notin ChunkIds(chunks)
              before == [runs |-> [r \in DOMAIN qa_runs \ {1} |-> qa_runs[r]],
                         contexts |-> qa_contexts, answers |-> qa_answers,
                         seq |-> nextCtxId]
              working == [runs |-> FinalizeRun(qa_runs, 1, 123, json.abstain),
                          contexts |-> WriteContextRows(qa_contexts, nextCtxId, 1, selected),
                          answers |-> WriteAnswer(qa_answers, 1, json),
                          seq |-> nextCtxId + Len(selected)]
              after == SessionScope(before, working, refused)
          IN  /\ qa_runs' = after.runs
              /\ qa_contexts' = after.contexts
              /\ qa_answers' = after.answers
              /\ nextCtxId' = after.seq
              /\ durable' = IF refused THEN durable ELSE Committed(after)
              /\ query' = [NoQuery EXCEPT
                              !.phase = IF refused THEN "failed" ELSE "done",
                              !.method = "finalize", !.run_id = 1, !.answer = json,
                              !.failure = IF refused THEN "IntegrityError" ELSE "none"]
    /\ lastRead' = NoRead
    /\ UNCHANGED <<pending, oplog, deletions>>
    /\ UNCHANGED <<chatVars, ingestVars, retrievalVars, embedVars, builderVars, chunkerVars,
                   quoteVars, evalVars>>

\* replay(run_id) of the run.
ServeReplay ==
    /\ 1 \in DOMAIN qa_answers
    /\ lastRead.op = "none"
    /\ lastRead' = [op |-> "replay", run_id |-> 1,
                    result |-> ReplaySnippets(ByRank(ContextsOf(qa_contexts, 1)), chunks,
                                              documents, service)]
    /\ UNCHANGED <<qa_runs, qa_contexts, qa_answers, nextCtxId, pending, durable, query, oplog,
                   deletions>>
    /\ UNCHANGED <<chatVars, ingestVars, retrievalVars, embedVars, builderVars, chunkerVars,
                   quoteVars, evalVars>>

NextServe ==
    \/ ReingestDocument
    \/ ReingestCommit
    \/ LexRemove
    \/ LexAdd
    \/ Interrupt
    \/ ServeSearch
    \/ ServeRetrieve
    \/ ServeFinalize
    \/ ServeReplay

SpecServe == InitServe /\ [][NextServe]_vars

\* C28: every chunk id that retrieve returns is the id of a row of the chunks
\* table when retrieve returns, and every chunk id write_contexts persists
\* for it is the id of a row when it is persisted, whatever ingests came
\* before and however their index updates ended.
C28_RetrievedChunksExist ==
    [][ /\ (rpos = "searching" /\ rpos' = "returned") =>
              \A i \in DOMAIN selected' : selected'[i].chunk_id \in ChunkIds(chunks')
        /\ \A ctx \in qa_contexts' \ qa_contexts : ctx.chunk_id \in ChunkIds(chunks')
      ]_vars

\* The snippet build() made at query time for the chunk of a replayed snippet.
QuerySnippetsOf(replayed) ==
    { snippets[i] : i \in { j \in DOMAIN snippets : snippets[j].chunk_id = replayed.chunk_id } }

Replayed == IF lastRead.op = "replay" THEN Range(lastRead.result) ELSE {}

\* C29: for every chunk in the run's context, the citation replay rebuilds from the stored
\* chunk and document is the citation the query delivered for it, whichever search
\* supplied the hit first, for markdown, PDF and email chunks.
C29_ReplayCitationEqualsQueryCitation ==
    \A r \in Replayed : \A q \in QuerySnippetsOf(r) : q.citation = r.citation

\* C30: for every context of the run, the rationale replay returns is the rationale the
\* query response carried for that chunk.
C30_ReplayRationaleEqualsQueryRationale ==
    \A r \in Replayed : \A q \in QuerySnippetsOf(r) : q.rationale = r.rationale

====
